---- MODULE Spec2Model ----
(***************************************************************************)
(* A model of the optimisation layer of rag_system_openrouter: the         *)
(* exact-match prompt cache (prompt_cache.py), the context memory store    *)
(* (context_memory.py), the persistent vector store                        *)
(* (vector_store_manager.py) and the orchestrator (optimized_rag.py).      *)
(*                                                                         *)
(* Texts are sequences of one-character strings, so that strip(), lower(), *)
(* startswith(), split() and character-wise streaming are computed as the  *)
(* code computes them.  Python's None is the empty tuple where a text or a *)
(* hash is expected.                                                       *)
(***************************************************************************)
EXTENDS Integers, Sequences, FiniteSets, TLC

VARIABLES
    cached_prompts,   \* rows of table cached_prompts, in rowid order
    context_chunks,   \* rows of table context_chunks, in rowid order
    now,              \* the clock behind CURRENT_TIMESTAMP (one unit = one second)
    steps,            \* number of operations performed so far (bounds a run)
    last_op,          \* the last direct call of a store method: its arguments and what it returned
    first_put,        \* history: per (query, context), the first cache_response since the last full clear
    sessions,         \* the store calls in flight, each on its own sqlite3 connection
    conversation_threads, \* rows of table conversation_threads, in rowid order
    adders,           \* the add_to_thread calls in flight, each on its own sqlite3 connection
    message_history,  \* the list the caller of the answer calls passes as message_history
    chunking,         \* the chunk loop of build_from_folder, iteration by iteration
    context_memory,   \* rows of table context_memory, in rowid order
    memory_seq,       \* the AUTOINCREMENT counter of context_memory
    store,            \* VectorStoreManager.store: the in-memory chunk list
    vs_metadata,      \* VectorStoreManager.metadata: the in-memory fingerprint table
    folder,           \* the corpus folder: per file name, whether it exists and its bytes
    metadata_file,    \* .vector_cache/metadata.json
    vectors_file,     \* .vector_cache/vectors.pkl
    build,            \* the last build_from_folder call: its arguments, its result, how far it is
    reader,           \* what a second process found when it built from the same cache directory
    built,            \* history: the (fingerprints, model, chunk set) of every rebuild so far
    last,             \* the last answer call: its arguments, its result and what it did, and
                      \* what the other answer path returns for the same arguments and stores
    stream            \* the suspended generator of answer_with_optimization_stream

\* no document is being chunked
NoChunking ==
    [active |-> FALSE, filename |-> <<>>, text_len |-> 0, start |-> 0, chunk_index |-> 0,
     store |-> <<>>, file_hashes |-> {}, failures |-> 0]

MaxAdders == 2
Adders == 1..MaxAdders

\* an add_to_thread call that has not been made
IdleAdder ==
    [pc |-> "idle", thread_id |-> <<>>, context_id |-> 0, found |-> FALSE,
     context_ids |-> <<>>, ok |-> FALSE]

NoAdders == [p \in Adders |-> IdleAdder]

memVars == <<context_memory, memory_seq>>
ragVars == <<store, last, stream>>
diskVars == <<vs_metadata, folder, metadata_file, vectors_file, build, reader, built>>
vars == <<cached_prompts, context_chunks, now, steps, last_op, first_put, sessions,
          conversation_threads, adders, message_history, chunking,
          context_memory, memory_seq, store, last, stream,
          vs_metadata, folder, metadata_file, vectors_file, build, reader, built>>

-----------------------------------------------------------------------------
(* Bounds of the model.                                                    *)

MaxSteps == 3
MaxCalls == 2
MaxTime == 3
\* clock units per day, for the age thresholds given in days
DayTicks == 2

-----------------------------------------------------------------------------
(* Texts.                                                                  *)

None == <<>>

RECURSIVE StartsWith(_, _)
\* str.startswith(prefix)
StartsWith(text, prefix) ==
    IF prefix = <<>> THEN TRUE
    ELSE IF text = <<>> THEN FALSE
    ELSE Head(text) = Head(prefix) /\ StartsWith(Tail(text), Tail(prefix))

\* hashlib.sha256(text.encode()).hexdigest(): a digest is a non-empty value
\* determined by the text; distinct texts of the model have distinct digests.
_hash_text(text) == <<"sha256">> \o text

Whitespace == {" ", "\n", "\t"}

UpperCase == <<"A", "B", "C", "D", "E", "F", "G", "H", "I", "J", "K", "L", "M",
               "N", "O", "P", "Q", "R", "S", "T", "U", "V", "W", "X", "Y", "Z">>
LowerCase == <<"a", "b", "c", "d", "e", "f", "g", "h", "i", "j", "k", "l", "m",
               "n", "o", "p", "q", "r", "s", "t", "u", "v", "w", "x", "y", "z">>

\* str.lower()
lower(text) ==
    [i \in 1..Len(text) |->
        IF \E k \in 1..26 : UpperCase[k] = text[i]
        THEN LowerCase[CHOOSE k \in 1..26 : UpperCase[k] = text[i]]
        ELSE text[i]]

RECURSIVE lstrip(_)
lstrip(text) ==
    IF text # <<>> /\ Head(text) \in Whitespace THEN lstrip(Tail(text)) ELSE text

RECURSIVE rstrip(_)
rstrip(text) ==
    IF text # <<>> /\ text[Len(text)] \in Whitespace
    THEN rstrip(SubSeq(text, 1, Len(text) - 1))
    ELSE text

\* str.strip()
strip(text) == rstrip(lstrip(text))

\* len(text.split()): the number of maximal runs of non-whitespace characters,
\* counted by the positions where a run begins (in_word: the text continues a word)
WordCount(text, in_word) ==
    Cardinality({i \in 1..Len(text) :
                    /\ text[i] \notin Whitespace
                    /\ IF i = 1 THEN ~in_word ELSE text[i - 1] \in Whitespace})

\* sep.join(parts)
RECURSIVE Join(_, _)
Join(parts, sep) ==
    IF parts = <<>> THEN <<>>
    ELSE IF Len(parts) = 1 THEN parts[1]
    ELSE parts[1] \o sep \o Join(Tail(parts), sep)

\* the concatenation of a sequence of texts
RECURSIVE Concat(_)
Concat(parts) == IF parts = <<>> THEN <<>> ELSE Head(parts) \o Concat(Tail(parts))

\* `word in text` (substring test)
Contains(text, word) ==
    \E i \in 0..(Len(text) - Len(word)) : SubSeq(text, i + 1, i + Len(word)) = word

DigitChars == <<"0", "1", "2", "3", "4", "5", "6", "7", "8", "9">>

\* str(n) for a natural number
RECURSIVE Digits(_)
Digits(n) == IF n < 10 THEN <<DigitChars[n + 1]>>
             ELSE Digits(n \div 10) \o <<DigitChars[(n % 10) + 1]>>

\* the characters of a text as single-character tokens (for c in text)
Chars(text) == [i \in 1..Len(text) |-> <<text[i]>>]

-----------------------------------------------------------------------------
(* prompt_cache.py: table cached_prompts.                                  *)

\* The constraints of CREATE TABLE cached_prompts: query_hash TEXT UNIQUE NOT NULL,
\* context_hash TEXT NOT NULL (the other NOT NULL columns always get a value).
\* TRUE iff INSERTing `row` into `rows` raises sqlite3.IntegrityError.
PromptIntegrityError(rows, row) ==
    \/ row.context_hash = None
    \/ \E i \in 1..Len(rows) : rows[i].query_hash = row.query_hash

\* An INSERT OR REPLACE: a second response for a query overwrites the first.
cache_response_rows_replacing(rows, query, context, response, model_id, tokens_saved, ts) ==
    LET row == [query_hash |-> _hash_text(query), query |-> query,
                context_hash |-> _hash_text(context), context |-> context,
                response |-> response, model_id |-> model_id,
                tokens_saved |-> tokens_saved, created_at |-> ts,
                last_accessed |-> ts, access_count |-> 1]
    IN IF \E i \in 1..Len(rows) : rows[i].query_hash = row.query_hash
       THEN [i \in 1..Len(rows) |-> IF rows[i].query_hash = row.query_hash
                                    THEN row ELSE rows[i]]
       ELSE Append(rows, row)

\* PromptCache.cache_response: the table after the call.
cache_response_rows(rows, query, context, response, model_id, tokens_saved, ts) ==
    LET query_hash == _hash_text(query)
        context_hash == IF context # <<>> THEN _hash_text(context) ELSE None
        row == [query_hash |-> query_hash, query |-> query,
                context_hash |-> context_hash, context |-> context,
                response |-> response, model_id |-> model_id,
                tokens_saved |-> tokens_saved, created_at |-> ts,
                last_accessed |-> ts, access_count |-> 1]
    IN IF PromptIntegrityError(rows, row) THEN rows ELSE Append(rows, row)

\* PromptCache.cache_response: the returned success status.
cache_response_ok(rows, query, context) ==
    LET probe == [query_hash |-> _hash_text(query),
                  context_hash |-> IF context # <<>> THEN _hash_text(context) ELSE None]
    IN ~PromptIntegrityError(rows, probe)

\* A lookup that always compares both hashes, the context-less one included.
PromptMatches_both_hashes(rows, query, context) ==
    LET query_hash == _hash_text(query)
        context_hash == IF context # <<>> THEN _hash_text(context) ELSE None
    IN {i \in 1..Len(rows) : rows[i].query_hash = query_hash
                             /\ rows[i].context_hash = context_hash}

\* A lookup by the normalised question, as the memory store's exact match does it.
PromptMatches_normalised(rows, query, context) ==
    {i \in 1..Len(rows) : lower(strip(rows[i].query)) = lower(strip(query))}

\* The SELECT of PromptCache.get_cached_response: the indexes of the matching rows.
PromptMatches(rows, query, context) ==
    LET query_hash == _hash_text(query)
        context_hash == IF context # <<>> THEN _hash_text(context) ELSE None
    IN IF context_hash # None
       THEN {i \in 1..Len(rows) : rows[i].query_hash = query_hash
                                  /\ rows[i].context_hash = context_hash}
       ELSE {i \in 1..Len(rows) : rows[i].query_hash = query_hash}

Min(S) == CHOOSE x \in S : \A y \in S : x <= y

\* PromptCache.get_cached_response: the returned dict, or [cached |-> FALSE] for None.
\* fetchone() takes the first matching row.
get_cached_response_result(rows, query, context) ==
    LET m == PromptMatches(rows, query, context)
    IN IF m = {} THEN [cached |-> FALSE]
       ELSE LET r == rows[Min(m)]
            IN [cached |-> TRUE, response |-> r.response,
                tokens_saved |-> r.tokens_saved, access_count |-> r.access_count]

\* An UPDATE without its WHERE clause: a hit counts as an access of every row.
get_cached_response_rows_unfiltered(rows, query, context, ts) ==
    IF PromptMatches(rows, query, context) = {} THEN rows
    ELSE [i \in 1..Len(rows) |->
            [rows[i] EXCEPT !.last_accessed = ts, !.access_count = @ + 1]]

\* PromptCache.get_cached_response: the table after the call. On a hit the UPDATE
\* touches every row WHERE query_hash = ?.
get_cached_response_rows(rows, query, context, ts) ==
    IF PromptMatches(rows, query, context) = {} THEN rows
    ELSE [i \in 1..Len(rows) |->
            IF rows[i].query_hash = _hash_text(query)
            THEN [rows[i] EXCEPT !.last_accessed = ts, !.access_count = @ + 1]
            ELSE rows[i]]

-----------------------------------------------------------------------------
(* prompt_cache.py: table context_chunks.                                  *)

\* An INSERT that never meets the UNIQUE constraint.
cache_context_chunk_rows_insert_only(rows, content, metadata, ts) ==
    Append(rows, [chunk_hash |-> _hash_text(content), chunk_content |-> content,
                  chunk_metadata |-> metadata, created_at |-> ts, reuse_count |-> 1])

\* PromptCache.cache_context_chunk: INSERT, or on IntegrityError (chunk_hash UNIQUE)
\* UPDATE reuse_count = reuse_count + 1.
cache_context_chunk_rows(rows, content, metadata, ts) ==
    LET chunk_hash == _hash_text(content)
    IN IF \E i \in 1..Len(rows) : rows[i].chunk_hash = chunk_hash
       THEN [i \in 1..Len(rows) |->
               IF rows[i].chunk_hash = chunk_hash
               THEN [rows[i] EXCEPT !.reuse_count = @ + 1]
               ELSE rows[i]]
       ELSE Append(rows, [chunk_hash |-> chunk_hash, chunk_content |-> content,
                          chunk_metadata |-> metadata, created_at |-> ts,
                          reuse_count |-> 1])

\* SelectSeq with a row predicate given as a set of kept indexes.
RECURSIVE KeepRows(_, _, _)
KeepRows(rows, keep, i) ==
    IF i > Len(rows) THEN <<>>
    ELSE (IF i \in keep THEN <<rows[i]>> ELSE <<>>) \o KeepRows(rows, keep, i + 1)

\* created_at < ? for a column written by CURRENT_TIMESTAMP (whole seconds) and a
\* Python datetime bound as text (with microseconds): a row written in the second
\* of the threshold compares less
CreatedBefore(row, threshold) == row.created_at <= threshold

\* the skews, in clock units, between datetime.now() (the host's local time) and
\* CURRENT_TIMESTAMP (UTC)
UtcOffsets == {-1, 0, 1}

\* PromptCache.clear_cache: cached_prompts after the call. A falsy older_than_days
\* (None or 0) deletes everything; otherwise the rows with
\* created_at < datetime.now() - timedelta(days), ts being datetime.now().
clear_cache_prompts(rows, older_than_days, ts) ==
    IF older_than_days # 0
    THEN KeepRows(rows, {i \in 1..Len(rows) :
                            ~CreatedBefore(rows[i], ts - older_than_days * DayTicks)}, 1)
    ELSE <<>>

\* PromptCache.clear_cache: context_chunks after the call.
clear_cache_chunks(rows, older_than_days) ==
    IF older_than_days # 0 THEN rows ELSE <<>>

-----------------------------------------------------------------------------
(* context_memory.py: table context_memory.  confidence_score is kept in   *)
(* hundredths (0.85 is 85), ids come from AUTOINCREMENT.                   *)

\* UNIQUE(query_hash, context_hash): TRUE iff the INSERT raises sqlite3.IntegrityError.
MemoryIntegrityError(rows, query_hash, context_hash) ==
    \E i \in 1..Len(rows) : rows[i].query_hash = query_hash
                            /\ rows[i].context_hash = context_hash

\* An upsert: a repeat store also overwrites the response, tags and confidence.
store_context_rows_overwriting(rows, seq, query, context, response, metadata, tags, confidence_score, model_id, ts) ==
    LET query_hash == _hash_text(query)
        context_hash == _hash_text(context)
    IN IF MemoryIntegrityError(rows, query_hash, context_hash)
       THEN [i \in 1..Len(rows) |->
               IF rows[i].query_hash = query_hash /\ rows[i].context_hash = context_hash
               THEN [rows[i] EXCEPT !.access_count = @ + 1, !.last_accessed = ts,
                                    !.response = response, !.tags = tags,
                                    !.confidence_score = confidence_score]
               ELSE rows[i]]
       ELSE Append(rows, [id |-> seq + 1, query_hash |-> query_hash, query |-> query,
                          context_hash |-> context_hash, context |-> context,
                          response |-> response, metadata |-> metadata, tags |-> tags,
                          created_at |-> ts, last_accessed |-> ts, access_count |-> 1,
                          confidence_score |-> confidence_score, model_id |-> model_id])

\* ContextMemoryStore.store_context: the table after the call.
store_context_rows(rows, seq, query, context, response, metadata, tags, confidence_score, model_id, ts) ==
    LET query_hash == _hash_text(query)
        context_hash == _hash_text(context)
    IN IF MemoryIntegrityError(rows, query_hash, context_hash)
       THEN [i \in 1..Len(rows) |->
               IF rows[i].query_hash = query_hash /\ rows[i].context_hash = context_hash
               THEN [rows[i] EXCEPT !.access_count = @ + 1, !.last_accessed = ts]
               ELSE rows[i]]
       ELSE Append(rows, [id |-> seq + 1, query_hash |-> query_hash, query |-> query,
                          context_hash |-> context_hash, context |-> context,
                          response |-> response, metadata |-> metadata, tags |-> tags,
                          created_at |-> ts, last_accessed |-> ts, access_count |-> 1,
                          confidence_score |-> confidence_score, model_id |-> model_id])

\* ContextMemoryStore.store_context: the AUTOINCREMENT counter after the call.
store_context_seq(rows, seq, query, context) ==
    IF MemoryIntegrityError(rows, _hash_text(query), _hash_text(context))
    THEN seq ELSE seq + 1

\* ContextMemoryStore.store_context: the returned context id.
store_context_id(rows, seq, query, context) ==
    IF MemoryIntegrityError(rows, _hash_text(query), _hash_text(context))
    THEN LET i == CHOOSE i \in 1..Len(rows) :
                     rows[i].query_hash = _hash_text(query)
                     /\ rows[i].context_hash = _hash_text(context)
         IN rows[i].id
    ELSE seq + 1

\* ORDER BY access_count DESC alone.
ByAccessOnly(a, b) == a.access_count >= b.access_count

\* ORDER BY access_count DESC, confidence_score DESC: a may come before b
ByAccessThenConfidence(a, b) ==
    \/ a.access_count > b.access_count
    \/ a.access_count = b.access_count /\ a.confidence_score >= b.confidence_score

\* The two sort keys in the opposite order: access_count DESC, last_accessed DESC.
ByAccessThenRecency(a, b) ==
    \/ a.access_count > b.access_count
    \/ a.access_count = b.access_count /\ a.last_accessed >= b.last_accessed

\* ORDER BY last_accessed DESC, access_count DESC: a may come before b
ByRecencyThenAccess(a, b) ==
    \/ a.last_accessed > b.last_accessed
    \/ a.last_accessed = b.last_accessed /\ a.access_count >= b.access_count

\* SELECT ... ORDER BY ... LIMIT: every list of at most `limit` of the candidate
\* rows that the ORDER BY allows; rows with equal sort keys come in any order.
\* the ORDER BY named `order_by`: a may come before b
MayPrecede(order_by, a, b) ==
    IF order_by = "access_count, confidence_score"
    THEN ByAccessThenConfidence(a, b)
    ELSE IF order_by = "access_count"
    THEN a.access_count >= b.access_count
    ELSE ByRecencyThenAccess(a, b)

OrderedLimit(rows, cand, order_by, limit) ==
    LET n == Cardinality(cand)
        k == IF n < limit THEN n ELSE limit
        orders == {f \in [1..n -> cand] :
                      /\ \A i \in 1..n, j \in 1..n : i # j => f[i] # f[j]
                      /\ \A i \in 1..(n - 1) : MayPrecede(order_by, rows[f[i]], rows[f[i + 1]])}
    IN {[i \in 1..k |-> rows[f[i]]] : f \in orders}

\* ContextMemoryStore.retrieve_similar_contexts: the lists the call may return.
retrieve_similar_contexts(rows, query, limit, min_confidence) ==
    LET exact == {i \in 1..Len(rows) : rows[i].query_hash = _hash_text(query)
                                       /\ rows[i].confidence_score >= min_confidence}
        floor == {i \in 1..Len(rows) : rows[i].confidence_score >= min_confidence}
    IN IF exact # {}
       THEN OrderedLimit(rows, exact, "access_count, confidence_score", limit)
       ELSE OrderedLimit(rows, floor, "last_accessed, access_count", limit)

\* A lookup that counts as an access of the exact matches it returns, the way
\* PromptCache.get_cached_response counts a hit.
retrieve_similar_contexts_rows_touching(rows, query, limit, min_confidence, ts) ==
    [i \in 1..Len(rows) |->
        IF rows[i].query_hash = _hash_text(query) /\ rows[i].confidence_score >= min_confidence
        THEN [rows[i] EXCEPT !.access_count = @ + 1, !.last_accessed = ts]
        ELSE rows[i]]

\* ContextMemoryStore.retrieve_similar_contexts: the table after the call.  The
\* call executes its one or two SELECTs and closes the connection.
retrieve_similar_contexts_rows(rows, query, limit, min_confidence, ts) == rows

\* the text of a category label
TagText(label) ==
    CASE label = "implementation" ->
            <<"i", "m", "p", "l", "e", "m", "e", "n", "t", "a", "t", "i", "o", "n">>
      [] label = "explanation" -> <<"e", "x", "p", "l", "a", "n", "a", "t", "i", "o", "n">>
      [] label = "troubleshooting" ->
            <<"t", "r", "o", "u", "b", "l", "e", "s", "h", "o", "o", "t", "i", "n", "g">>
      [] label = "design" -> <<"d", "e", "s", "i", "g", "n">>

\* tags_json = json.dumps(tags) if tags else None
tags_json(tags) ==
    IF tags = <<>> THEN None
    ELSE <<"[">> \o Join([i \in 1..Len(tags) |-> <<"\"">> \o TagText(tags[i]) \o <<"\"">>],
                         <<",", " ">>) \o <<"]">>

\* tags LIKE '%tag%' for a tag without wildcard characters: the tag occurs in
\* the stored JSON text, letter case apart; a NULL column matches nothing
TagsLike(tags, tag) ==
    tags_json(tags) # None /\ Contains(lower(tags_json(tags)), lower(tag))

\* ContextMemoryStore.get_memory_by_tags: the lists the call may return, the
\* matches of each tag in turn
RECURSIVE get_memory_by_tags(_, _, _)
get_memory_by_tags(rows, tags, limit) ==
    IF tags = <<>> THEN {<<>>}
    ELSE LET m == {i \in 1..Len(rows) : TagsLike(rows[i].tags, Head(tags))}
         IN {h \o t : h \in OrderedLimit(rows, m, "access_count", limit),
                      t \in get_memory_by_tags(rows, Tail(tags), limit)}

\* ContextMemoryStore.get_memory_by_tags: the table after the call
get_memory_by_tags_rows(rows, tags, limit) == rows

\* the fixed low-usage threshold of cleanup_old_contexts (access_count < 5)
LowUsageThreshold == 5

\* the rows the DELETE of cleanup_old_contexts removes: created before
\* datetime.now() - timedelta(days), ts being datetime.now(), and accessed fewer
\* than LowUsageThreshold times
CleanupMatches(rows, days, ts) ==
    {i \in 1..Len(rows) : /\ CreatedBefore(rows[i], ts - days * DayTicks)
                          /\ rows[i].access_count < LowUsageThreshold}

\* ContextMemoryStore.cleanup_old_contexts: the table after the call
cleanup_old_contexts_rows(rows, days, ts) ==
    KeepRows(rows, (1..Len(rows)) \ CleanupMatches(rows, days, ts), 1)

\* ContextMemoryStore.cleanup_old_contexts: the returned cursor.rowcount
cleanup_old_contexts_deleted(rows, days, ts) ==
    Cardinality(CleanupMatches(rows, days, ts))

-----------------------------------------------------------------------------
(* embedding.py and VectorStoreManager.semantic_search.                    *)

RECURSIVE Dot(_, _)
Dot(v1, v2) == IF v1 = <<>> \/ v2 = <<>> THEN 0
               ELSE Head(v1) * Head(v2) + Dot(Tail(v1), Tail(v2))

\* cosine_similarity: dot / (norm1 * norm2), kept exactly as the pair
\* (dot, norm1^2 * norm2^2); 0.0 when either norm is 0.
cosine_similarity(vec1, vec2) ==
    IF Dot(vec1, vec1) = 0 \/ Dot(vec2, vec2) = 0 \/ Dot(vec1, vec2) = 0
    THEN [num |-> 0, den_sq |-> 1]
    ELSE [num |-> Dot(vec1, vec2), den_sq |-> Dot(vec1, vec1) * Dot(vec2, vec2)]

\* a > b for two similarities
ScoreGreater(a, b) ==
    IF a.num >= 0 /\ b.num >= 0 THEN a.num * a.num * b.den_sq > b.num * b.num * a.den_sq
    ELSE IF a.num < 0 /\ b.num < 0 THEN a.num * a.num * b.den_sq < b.num * b.num * a.den_sq
    ELSE a.num >= 0 /\ b.num < 0

\* An unstable sort: e goes before the elements of equal score.
RECURSIVE InsertByScore_before_equal(_, _)
InsertByScore_before_equal(sorted, e) ==
    IF sorted = <<>> THEN <<e>>
    ELSE IF ~ScoreGreater(Head(sorted).score, e.score) THEN <<e>> \o sorted
    ELSE <<Head(sorted)>> \o InsertByScore_before_equal(Tail(sorted), e)

\* list.sort(key=score, reverse=True) is stable: insert e after every element
\* whose score is not smaller.
RECURSIVE InsertByScore(_, _)
InsertByScore(sorted, e) ==
    IF sorted = <<>> THEN <<e>>
    ELSE IF ScoreGreater(e.score, Head(sorted).score) THEN <<e>> \o sorted
    ELSE <<Head(sorted)>> \o InsertByScore(Tail(sorted), e)

RECURSIVE SortByScore(_, _)
SortByScore(scored, acc) ==
    IF scored = <<>> THEN acc
    ELSE SortByScore(Tail(scored), InsertByScore(acc, Head(scored)))

\* The search without the test for an empty query embedding.
semantic_search_unguarded(entries, query_embedding, top_k) ==
    LET scored == [i \in 1..Len(entries) |->
                      [filename |-> entries[i].filename,
                       score |-> cosine_similarity(query_embedding, entries[i].embedding),
                       content |-> entries[i].content]]
        sorted == SortByScore(scored, <<>>)
    IN SubSeq(sorted, 1, IF Len(sorted) < top_k THEN Len(sorted) ELSE top_k)

\* VectorStoreManager.semantic_search: `query_embedding` is what
\* embed_with_openrouter returned, [] on any failure.
semantic_search(entries, query_embedding, top_k) ==
    IF query_embedding = <<>> THEN <<>>
    ELSE LET scored == [i \in 1..Len(entries) |->
                          [filename |-> entries[i].filename,
                           score |-> cosine_similarity(query_embedding, entries[i].embedding),
                           content |-> entries[i].content]]
             sorted == SortByScore(scored, <<>>)
         IN SubSeq(sorted, 1, IF Len(sorted) < top_k THEN Len(sorted) ELSE top_k)

-----------------------------------------------------------------------------
(* semantic_search.py and vector_store_manager.py: the corpus folder and   *)
(* the rebuild.  A file is [exists, bytes].  File names are texts as       *)
(* above; the content of a file, of a document and of a chunk is written   *)
(* run-length, as a sequence of runs [char, count] with count > 0, so that *)
(* a text longer than one chunk stays small.                               *)

RECURSIVE TextLen(_)
\* len(text) of a run-length text
TextLen(runs) == IF runs = <<>> THEN 0 ELSE Head(runs).count + TextLen(Tail(runs))

RECURSIVE Slice(_, _, _)
\* text[start:end] of a run-length text, for 0 <= start
Slice(runs, start, end) ==
    IF runs = <<>> \/ end <= 0 THEN <<>>
    ELSE LET r == Head(runs)
             lo == IF start > 0 THEN start ELSE 0
             hi == IF end < r.count THEN end ELSE r.count
         IN (IF lo < hi THEN <<[char |-> r.char, count |-> hi - lo]>> ELSE <<>>)
            \o Slice(Tail(runs), start - r.count, end - r.count)

RECURSIVE Expand(_)
\* a run-length text written out character by character
Expand(runs) ==
    IF runs = <<>> THEN <<>>
    ELSE [i \in 1..Head(runs).count |-> Head(runs).char] \o Expand(Tail(runs))

NoFile == [exists |-> FALSE, bytes |-> <<>>]
File(bytes) == [exists |-> TRUE, bytes |-> bytes]

RECURSIVE EndsWith(_, _)
\* str.endswith(suffix)
EndsWith(text, suffix) ==
    IF suffix = <<>> THEN TRUE
    ELSE IF text = <<>> THEN FALSE
    ELSE text[Len(text)] = suffix[Len(suffix)]
         /\ EndsWith(SubSeq(text, 1, Len(text) - 1), SubSeq(suffix, 1, Len(suffix) - 1))

TxtSuffix == <<".", "t", "x", "t">>
PdfSuffix == <<".", "p", "d", "f">>
DocxSuffix == <<".", "d", "o", "c", "x">>

\* filename.endswith(('.txt', '.pdf', '.docx'))
Supported(filename) ==
    \/ EndsWith(filename, TxtSuffix)
    \/ EndsWith(filename, PdfSuffix)
    \/ EndsWith(filename, DocxSuffix)

\* a byte that is not valid UTF-8
InvalidByte == "\\xff"

\* open(full_path, "r", encoding="utf-8").read(): the text, None when decoding raises
ReadText(bytes) ==
    IF \E i \in 1..Len(bytes) : bytes[i].char = InvalidByte
    THEN [none |-> TRUE, text |-> <<>>]
    ELSE [none |-> FALSE, text |-> bytes]

\* os.listdir(folder_path): the names of the existing files, in any order
listdir(dir) ==
    LET names == {f \in DOMAIN dir : dir[f].exists}
        n == Cardinality(names)
    IN {order \in [1..n -> names] : \A i \in 1..n, j \in 1..n : i # j => order[i] # order[j]}

\* load_documents_from_folder, for the directory listing `order`: a file that is
\* not .txt is skipped here (the model's folders hold no .pdf and no .docx), and
\* so is a .txt that cannot be read
RECURSIVE load_documents_from_folder(_, _)
load_documents_from_folder(dir, order) ==
    IF order = <<>> THEN <<>>
    ELSE LET filename == Head(order)
             content == ReadText(dir[filename].bytes)
         IN (IF EndsWith(filename, TxtSuffix) /\ ~content.none
             THEN <<[filename |-> filename, content |-> content.text]>>
             ELSE <<>>)
            \o load_documents_from_folder(dir, Tail(order))

\* VectorStoreManager._get_file_hash: the md5 digest of the file's bytes, a value
\* determined by the bytes; distinct bytes of the model have distinct digests
_get_file_hash(dir, filename) == <<"md5">> \o dir[filename].bytes

\* current_files of _is_cache_valid: the digest of every supported file
current_files(dir) ==
    [f \in {g \in DOMAIN dir : dir[g].exists /\ Supported(g)} |-> _get_file_hash(dir, f)]

\* file_hashes of build_from_folder: the digest of every loaded document
file_hashes(dir, documents) ==
    [f \in {documents[i].filename : i \in 1..Len(documents)} |-> _get_file_hash(dir, f)]

chunk_size == 1000
chunk_overlap == 200

\* the chunking loop of build_from_folder: the windows [start, end) it cuts
RECURSIVE ChunkWindows(_, _, _)
ChunkWindows(text_len, start, chunk_index) ==
    IF ~(start < text_len) THEN <<>>
    ELSE LET end == IF start + chunk_size < text_len THEN start + chunk_size ELSE text_len
         IN <<[chunk_index |-> chunk_index, start |-> start, end |-> end]>>
            \o ChunkWindows(text_len, IF end < text_len THEN end - chunk_overlap ELSE end,
                            chunk_index + 1)

\* f"{filename}__chunk_{chunk_index}"
chunk_name(filename, chunk_index) ==
    filename \o <<"_", "_", "c", "h", "u", "n", "k", "_">> \o Digits(chunk_index)

\* what the Embedding Provider returns for a text when it answers
EmbeddingVector(embed_model_id, text) == <<Len(embed_model_id), TextLen(text)>>

\* embed_with_openrouter: the vector, [] when the call fails
embed_with_openrouter(embed_model_id, text, answered) ==
    IF answered THEN EmbeddingVector(embed_model_id, text) ELSE <<>>

\* A chunk loop that gives up the document at the first failed embedding call.
RECURSIVE DocumentChunks_until_failure(_, _, _, _, _)
DocumentChunks_until_failure(doc, windows, embed_model_id, failed, ts) ==
    IF windows = <<>> THEN <<>>
    ELSE LET w == Head(windows)
             chunk_text == Slice(doc.content, w.start, w.end)
             name == chunk_name(doc.filename, w.chunk_index)
             embedding == embed_with_openrouter(embed_model_id, chunk_text, name \notin failed)
         IN IF embedding # <<>>
            THEN <<[filename |-> name, source |-> doc.filename, content |-> chunk_text,
                    embedding |-> embedding, timestamp |-> ts]>>
                 \o DocumentChunks_until_failure(doc, Tail(windows), embed_model_id, failed, ts)
            ELSE <<>>

\* the chunks of one document that build_from_folder appends to the store;
\* `failed` holds the chunk names whose embedding call fails
RECURSIVE DocumentChunks(_, _, _, _, _)
DocumentChunks(doc, windows, embed_model_id, failed, ts) ==
    IF windows = <<>> THEN <<>>
    ELSE LET w == Head(windows)
             chunk_text == Slice(doc.content, w.start, w.end)
             name == chunk_name(doc.filename, w.chunk_index)
             embedding == embed_with_openrouter(embed_model_id, chunk_text, name \notin failed)
         IN (IF embedding # <<>>
             THEN <<[filename |-> name, source |-> doc.filename, content |-> chunk_text,
                     embedding |-> embedding, timestamp |-> ts]>>
             ELSE <<>>)
            \o DocumentChunks(doc, Tail(windows), embed_model_id, failed, ts)

\* the document loop of build_from_folder: the new store
RECURSIVE BuildStore(_, _, _, _)
BuildStore(documents, embed_model_id, failed, ts) ==
    IF documents = <<>> THEN <<>>
    ELSE DocumentChunks(Head(documents), ChunkWindows(TextLen(Head(documents).content), 0, 0),
                        embed_model_id, failed, ts)
         \o BuildStore(Tail(documents), embed_model_id, failed, ts)

\* the chunk names build_from_folder asks the Embedding Provider about
RECURSIVE ChunkNames(_)
ChunkNames(documents) ==
    IF documents = <<>> THEN {}
    ELSE LET doc == Head(documents)
             windows == ChunkWindows(TextLen(doc.content), 0, 0)
         IN {chunk_name(doc.filename, windows[i].chunk_index) : i \in 1..Len(windows)}
            \cup ChunkNames(Tail(documents))

\* the files on disk: a missing file, or a file and what reading it gives
NoMetadata == [files |-> <<>>, model_id |-> None]
MissingFile == [exists |-> FALSE, complete |-> FALSE, data |-> <<>>]
WrittenFile(data) == [exists |-> TRUE, complete |-> TRUE, data |-> data]
\* a file opened for writing and not written yet, or written in part
TruncatedFile == [exists |-> TRUE, complete |-> FALSE, data |-> <<>>]

\* VectorStoreManager._load_metadata
_load_metadata(file) ==
    IF file.exists /\ file.complete THEN file.data ELSE NoMetadata

\* VectorStoreManager._is_cache_valid
_is_cache_valid(vfile, meta, dir, embed_model_id) ==
    /\ vfile.exists
    /\ meta.model_id = embed_model_id
    /\ current_files(dir) = meta.files

\* VectorStoreManager._load_from_cache: the returned list ([] when unpickling raises)
_load_from_cache(vfile) ==
    IF vfile.exists /\ vfile.complete THEN vfile.data ELSE <<>>

\* The corpus of the model: two text files and a file of another kind; a text
\* of one character, one of chunk_size + 1 characters, an empty one and one that
\* is not UTF-8.
FileA == <<"a", ".", "t", "x", "t">>
FileB == <<"b", ".", "t", "x", "t">>
FileN == <<"n", ".", "m", "d">>
FileNames == {FileA, FileB, FileN}
ShortText == <<[char |-> "p", count |-> 1]>>
LongText == <<[char |-> "q", count |-> chunk_size - 100], [char |-> "r", count |-> 101]>>
EmptyText == <<>>
BadBytes == <<[char |-> InvalidByte, count |-> 1]>>
EmbedModels == {<<"e">>, <<"e", "2">>}
EmptyFolder == [f \in FileNames |-> NoFile]

NoBuild == [n |-> 0, embed_model_id |-> None, folder |-> EmptyFolder, phase |-> "none",
            cache_hit |-> FALSE, embed_calls |-> 0, returned |-> <<>>, pending |-> <<>>,
            order |-> <<>>, failed |-> {}]
NoReader == [ran |-> FALSE, files |-> <<>>, model_id |-> None, chunks |-> <<>>]

\* no corpus, no cache directory content, no build made
NoIndex ==
    /\ vs_metadata = NoMetadata
    /\ folder = EmptyFolder
    /\ metadata_file = MissingFile
    /\ vectors_file = MissingFile
    /\ build = NoBuild
    /\ reader = NoReader
    /\ built = {}

-----------------------------------------------------------------------------
(* chat.py: the Model Provider.  A provider outcome is                     *)
(*   [kind |-> "ok", content]         HTTP 200 with a choice                *)
(*   [kind |-> "null"]                HTTP 200, the choice's content is null *)
(*   [kind |-> "nochoices"]           HTTP 200 without choices              *)
(*   [kind |-> "status", code]        another HTTP status                   *)
(*   [kind |-> "exception", content]  an exception (while streaming: after  *)
(*                                    `content` was already received)       *)

Some(text) == [none |-> FALSE, text |-> text]
Nothing == [none |-> TRUE, text |-> <<>>]

ErrorWord == <<"E", "r", "r", "o", "r">>

\* the "Error: ..." messages of chat.py, each cut after the letters that tell it
\* from the others (the texts are served again character by character)
ErrorText(outcome) ==
    IF outcome.kind = "exception" THEN <<"E", "r", "r", "o", "r", ":", " ", "e">>
    ELSE IF outcome.code = 402 THEN <<"E", "r", "r", "o", "r", ":", " ", "I", "n", "s">>
    ELSE IF outcome.code = 401 THEN <<"E", "r", "r", "o", "r", ":", " ", "I", "n", "v">>
    ELSE IF outcome.code = 429 THEN <<"E", "r", "r", "o", "r", ":", " ", "R">>
    ELSE <<"E", "r", "r", "o", "r", ":", " ">> \o Digits(outcome.code)

\* "No response from model", cut after its first word
NoResponseText == <<"N", "o">>

\* chat_with_openrouter: the returned text (None for a null content)
chat_with_openrouter(outcome) ==
    IF outcome.kind \in {"status", "exception"} THEN Some(ErrorText(outcome))
    ELSE IF outcome.kind = "nochoices" THEN Some(NoResponseText)
    ELSE IF outcome.kind = "null" THEN Nothing
    ELSE Some(outcome.content)

\* invoke_model_stream with character_stream=True: the tokens it yields
\* (a null delta content makes `for char in text` raise, which the outer except
\* turns into an "Error: ..." token; chunks without choices yield nothing)
invoke_model_stream(outcome) ==
    IF outcome.kind = "status" THEN <<ErrorText(outcome)>>
    ELSE IF outcome.kind \in {"exception", "null"}
    THEN Chars(outcome.content) \o <<ErrorText([outcome EXCEPT !.kind = "exception"])>>
    ELSE Chars(outcome.content)

\* TRUE iff the provider call failed: an HTTP error status or an exception
ProviderFailed(outcome) == outcome.kind \in {"status", "exception"}

-----------------------------------------------------------------------------
(* optimized_rag.py: the helpers of the orchestrator.                      *)

\* The response handed on as it came, without the test for an "Error" text.
_invoke_model_with_context_unchecked(outcome) == chat_with_openrouter(outcome)

\* OptimizedRAG._invoke_model_with_context: the response, None on an error
_invoke_model_with_context(outcome) ==
    LET response == chat_with_openrouter(outcome)
    IN IF ~response.none /\ response.text # <<>> /\ StartsWith(response.text, ErrorWord)
       THEN Nothing
       ELSE response

\* OptimizedRAG._invoke_model_with_context: the caller's message_history after
\* the call.  A response that is not an "Error" text, None included, is appended
\* as an assistant turn when the list is not empty.
_invoke_model_with_context_history(history, outcome) ==
    LET response == chat_with_openrouter(outcome)
    IN IF ~response.none /\ response.text # <<>> /\ StartsWith(response.text, ErrorWord)
       THEN history
       ELSE IF history # <<>>
       THEN Append(history, [role |-> "assistant", content |-> response])
       ELSE history

\* OptimizedRAG._invoke_model_with_context_stream: the tokens it yields
_invoke_model_with_context_stream(outcome) == invoke_model_stream(outcome)

\* the keyword table of _extract_tags, in declaration order
TagKeywords ==
    << [category |-> "implementation",
        words |-> {<<"h", "o", "w">>, <<"b", "u", "i", "l", "d">>, <<"c", "r", "e", "a", "t", "e">>,
                   <<"d", "e", "v", "e", "l", "o", "p">>}],
       [category |-> "explanation",
        words |-> {<<"w", "h", "a", "t">>, <<"e", "x", "p", "l", "a", "i", "n">>,
                   <<"d", "e", "s", "c", "r", "i", "b", "e">>, <<"w", "h", "y">>}],
       [category |-> "troubleshooting",
        words |-> {<<"e", "r", "r", "o", "r">>, <<"b", "u", "g">>, <<"f", "i", "x">>,
                   <<"i", "s", "s", "u", "e">>, <<"p", "r", "o", "b", "l", "e", "m">>}],
       [category |-> "design",
        words |-> {<<"a", "r", "c", "h", "i", "t", "e", "c", "t", "u", "r", "e">>,
                   <<"d", "e", "s", "i", "g", "n">>, <<"p", "a", "t", "t", "e", "r", "n">>,
                   <<"s", "t", "r", "u", "c", "t", "u", "r", "e">>}] >>

RECURSIVE MatchedTags(_, _)
MatchedTags(question_lower, k) ==
    IF k > Len(TagKeywords) THEN <<>>
    ELSE (IF \E word \in TagKeywords[k].words : Contains(question_lower, word)
          THEN <<TagKeywords[k].category>> ELSE <<>>)
         \o MatchedTags(question_lower, k + 1)

\* every matching category, without the cut after the third
_extract_tags_uncut(question) == MatchedTags(lower(question), 1)

\* OptimizedRAG._extract_tags
_extract_tags(question) ==
    LET tags == MatchedTags(lower(question), 1)
    IN SubSeq(tags, 1, IF Len(tags) < 3 THEN Len(tags) ELSE 3)

\* f"[Memory - Confidence: {confidence_score:.2%}]" for a score in hundredths
MemoryHeader(confidence_score) ==
    <<"[", "M", "e", "m", "o", "r", "y", " ", "-", " ", "C", "o", "n", "f", "i", "d",
      "e", "n", "c", "e", ":", " ">>
    \o Digits(confidence_score) \o <<".", "0", "0", "%", "]">>

\* f"[Document: {filename}]"
DocumentHeader(filename) ==
    <<"[", "D", "o", "c", "u", "m", "e", "n", "t", ":", " ">> \o filename \o <<"]">>

RECURSIVE MemoryParts(_)
MemoryParts(past_contexts) ==
    IF past_contexts = <<>> THEN <<>>
    ELSE <<MemoryHeader(Head(past_contexts).confidence_score),
           Head(past_contexts).response, <<>>>>
         \o MemoryParts(Tail(past_contexts))

RECURSIVE DocumentParts(_)
DocumentParts(retrieved_results) ==
    IF retrieved_results = <<>> THEN <<>>
    ELSE <<DocumentHeader(Head(retrieved_results).filename),
           Head(retrieved_results).content, <<>>>>
         \o DocumentParts(Tail(retrieved_results))

\* combined_context = "\n".join(context_parts)
combined_context(past_contexts, retrieved_results) ==
    Join(MemoryParts(past_contexts) \o DocumentParts(retrieved_results), <<"\n">>)

\* only the best result is cached
CacheRetrievedChunks_first_only(rows, retrieved_results, ts) ==
    IF retrieved_results = <<>> THEN rows
    ELSE cache_context_chunk_rows(rows, Head(retrieved_results).content,
                                  [source |-> Head(retrieved_results).filename,
                                   score |-> Head(retrieved_results).score], ts)

\* the loop of cache_context_chunk calls over the retrieved results
RECURSIVE CacheRetrievedChunks(_, _, _)
CacheRetrievedChunks(rows, retrieved_results, ts) ==
    IF retrieved_results = <<>> THEN rows
    ELSE CacheRetrievedChunks(
            cache_context_chunk_rows(rows, Head(retrieved_results).content,
                                     [source |-> Head(retrieved_results).filename,
                                      score |-> Head(retrieved_results).score], ts),
            Tail(retrieved_results), ts)

\* The last matching entry instead of the first.
FirstExactMatch_last(past_contexts, user_question) ==
    LET m == {k \in 1..Len(past_contexts) :
                 lower(strip(past_contexts[k].query)) = lower(strip(user_question))}
    IN IF m = {} THEN 0 ELSE CHOOSE k \in m : \A j \in m : j <= k

\* the exact-match test of the memory check: the position of the first retrieved
\* entry whose query equals the question after strip() and lower(), 0 if none
FirstExactMatch(past_contexts, user_question) ==
    LET m == {k \in 1..Len(past_contexts) :
                 lower(strip(past_contexts[k].query)) = lower(strip(user_question))}
    IN IF m = {} THEN 0 ELSE Min(m)

\* the estimate taken from the characters instead of the words
estimated_tokens_saved_of_characters(context) == Len(context) \div 4

\* estimated_tokens_saved = len(combined_context.split()) // 4
estimated_tokens_saved(context) == WordCount(context, FALSE) \div 4

\* the write-back to the prompt cache (if use_cache)
WriteBackCache(rows, use_cache, user_question, context, response, model_id, ts) ==
    IF use_cache
    THEN cache_response_rows(rows, user_question, context, response, model_id,
                             estimated_tokens_saved(context), ts)
    ELSE rows

\* confidence_score = 0.85 if len(retrieved_results) > 0 else 0.5
WriteBackConfidence(n_retrieved) == IF n_retrieved > 0 THEN 85 ELSE 50

\* the write-back to the memory store made whatever store_memory says
WriteBackMemory_regardless(rows, seq, store_memory, user_question, context, response, source, n_retrieved, n_past, model_id, ts) ==
    store_context_rows(rows, seq, user_question, context, response,
                       [source |-> source, retrieved_docs |-> n_retrieved,
                        past_contexts_used |-> n_past],
                       _extract_tags(user_question),
                       WriteBackConfidence(n_retrieved), model_id, ts)

\* the write-back to the memory store (if store_memory)
WriteBackMemory(rows, seq, store_memory, user_question, context, response, source, n_retrieved, n_past, model_id, ts) ==
    IF store_memory
    THEN store_context_rows(rows, seq, user_question, context, response,
                            [source |-> source, retrieved_docs |-> n_retrieved,
                             past_contexts_used |-> n_past],
                            _extract_tags(user_question),
                            WriteBackConfidence(n_retrieved), model_id, ts)
    ELSE rows

WriteBackMemorySeq(rows, seq, store_memory, user_question, context) ==
    IF store_memory THEN store_context_seq(rows, seq, user_question, context) ELSE seq

-----------------------------------------------------------------------------
(* Store calls on separate connections.  Every cache_response and          *)
(* store_context call opens its own sqlite3 connection; a connection's     *)
(* INSERT or UPDATE opens a transaction that holds the database's write    *)
(* lock until its commit or close, and other connections see its rows only *)
(* after the commit.                                                       *)

MaxSessions == 3
Sessions == 1..MaxSessions

\* a connection that has not been opened
IdleSession ==
    [call |-> "none", query |-> <<>>, context |-> <<>>, response |-> <<>>,
     pc |-> "idle", ok |-> FALSE, id |-> 0]

NoSessions == [p \in Sessions |-> IdleSession]

\* the sessions with an open write transaction on the database of `call`
WriteLockHolders(ss, call) ==
    {p \in Sessions : ss[p].call = call /\ ss[p].pc \in {"commit", "update", "commit_update"}}

-----------------------------------------------------------------------------
(* The prompt cache driven directly through its public methods.            *)

Questions == {<<"a">>, <<"A", " ">>, <<"b">>}
CacheContexts == {<<>>, <<"c">>, <<"d">>}
Replies == {<<"x">>, <<"y">>}
CacheQueries == {<<"a">>, <<"b">>}
ChatModel == <<"m">>

NoOp == [op |-> "none"]

\* no answer call yet
NoCall ==
    [streaming |-> FALSE, question |-> <<>>, use_cache |-> FALSE,
     store_memory |-> FALSE, retrieve_past_contexts |-> FALSE,
     outcome |-> "none", response |-> <<>>, emitted |-> <<>>, done |-> TRUE,
     stopped |-> FALSE, error |-> FALSE,
     cache_hit |-> FALSE, memory_reused |-> FALSE, contexts_retrieved |-> 0,
     retrieved |-> <<>>, model_id |-> ChatModel,
     tokens_saved |-> 0, model_calls |-> 0, embed_calls |-> 0, memory_reads |-> 0,
     provider_failed |-> FALSE, provider |-> "none", past |-> <<>>, context |-> <<>>,
     other_path |-> <<>>]

\* no generator is suspended
IdleStream == [active |-> FALSE, source |-> "none", pending |-> <<>>,
               store_memory |-> FALSE]

InitCache ==
    /\ cached_prompts = <<>>
    /\ context_chunks = <<>>
    /\ now = 0
    /\ steps = 0
    /\ last_op = NoOp
    /\ first_put = {}
    /\ sessions = NoSessions
    /\ conversation_threads = <<>>
    /\ adders = NoAdders
    /\ message_history = <<>>
    /\ chunking = NoChunking
    /\ context_memory = <<>>
    /\ memory_seq = 0
    /\ store = <<>>
    /\ last = NoCall
    /\ stream = IdleStream
    /\ NoIndex

Tick ==
    /\ now < MaxTime
    /\ now' = now + 1
    /\ UNCHANGED <<cached_prompts, context_chunks, steps, last_op, first_put, sessions, chunking, conversation_threads, adders, message_history, memVars, ragVars, diskVars>>

CacheResponse(query, context, response, tokens_saved) ==
    /\ steps < MaxSteps
    /\ steps' = steps + 1
    /\ cached_prompts' = cache_response_rows(cached_prompts, query, context, response,
                                             ChatModel, tokens_saved, now)
    /\ last_op' = [op |-> "put", query |-> query, context |-> context,
                   response |-> response,
                   result |-> cache_response_ok(cached_prompts, query, context)]
    /\ first_put' = IF \E p \in first_put : p.query = query /\ p.context = context
                    THEN first_put
                    ELSE first_put \cup {[query |-> query, context |-> context,
                                          response |-> response, at |-> now]}
    /\ UNCHANGED <<context_chunks, now, sessions, chunking, conversation_threads, adders, message_history, memVars, ragVars, diskVars>>

GetCachedResponse(query, context) ==
    /\ steps < MaxSteps
    /\ steps' = steps + 1
    /\ cached_prompts' = get_cached_response_rows(cached_prompts, query, context, now)
    /\ last_op' = [op |-> "get", query |-> query, context |-> context,
                   result |-> get_cached_response_result(cached_prompts, query, context)]
    /\ UNCHANGED <<context_chunks, now, first_put, sessions, chunking, conversation_threads, adders, message_history, memVars, ragVars, diskVars>>

CacheContextChunk(content) ==
    /\ steps < MaxSteps
    /\ steps' = steps + 1
    /\ context_chunks' = cache_context_chunk_rows(context_chunks, content, None, now)
    /\ last_op' = [op |-> "chunk", content |-> content]
    /\ UNCHANGED <<cached_prompts, now, first_put, sessions, chunking, conversation_threads, adders, message_history, memVars, ragVars, diskVars>>

ClearCache(older_than_days) ==
    /\ steps < MaxSteps
    /\ steps' = steps + 1
    /\ \E utc_offset \in UtcOffsets :
          /\ cached_prompts' = clear_cache_prompts(cached_prompts, older_than_days,
                                                   now + utc_offset)
          /\ first_put' = IF older_than_days # 0
                          THEN {p \in first_put :
                                  ~(p.at <= now + utc_offset - older_than_days * DayTicks)}
                          ELSE {}
    /\ context_chunks' = clear_cache_chunks(context_chunks, older_than_days)
    /\ last_op' = [op |-> "clear", older_than_days |-> older_than_days]
    /\ UNCHANGED <<now, sessions, chunking, conversation_threads, adders, message_history, memVars, ragVars, diskVars>>

NextCache ==
    \/ Tick
    \/ \E q \in CacheQueries, c \in CacheContexts, r \in Replies :
          CacheResponse(q, c, r, Len(c))
    \/ \E q \in CacheQueries, c \in CacheContexts : GetCachedResponse(q, c)
    \/ \E c \in CacheContexts \ {<<>>} : CacheContextChunk(c)
    \/ \E d \in {0, 1} : ClearCache(d)

SpecCache == InitCache /\ [][NextCache]_vars

-----------------------------------------------------------------------------
(* Claims about the prompt cache.                                          *)

\* C2: for any (query, context) pair, get_cached_response(query, context) returns
\* exactly the response of the first cache_response made for that pair (a later
\* cache_response for the pair with another response does not replace it).
C2_GetReturnsFirstPut ==
    last_op.op = "get" =>
        \A p \in first_put :
            (p.query = last_op.query /\ p.context = last_op.context)
                => (last_op.result.cached /\ last_op.result.response = p.response)

\* C3: uniqueness is per (query_hash, context_hash): cache_response calls with the
\* same query and different contexts (one of them possibly empty) each leave their
\* own row, holding their own response.
C3_OneEntryPerPair ==
    \A p1 \in first_put, p2 \in first_put :
        (p1.query = p2.query /\ p1.context # p2.context) =>
            \A p \in {p1, p2} :
                \E i \in 1..Len(cached_prompts) :
                    /\ cached_prompts[i].query = p.query
                    /\ cached_prompts[i].context = p.context
                    /\ cached_prompts[i].response = p.response

-----------------------------------------------------------------------------
(* optimized_rag.py: the answer calls.  One question is answered at a time *)
(* (the UI consumes one generator before it accepts the next question),    *)
(* and each answer call falls into a later clock second than the one       *)
(* before it; everything a call writes carries the second it started in.   *)

\* (a reply may itself begin with the word "Error")
ModelReplies == {<<"y", "z">>, ErrorWord}
StatusCodes == {402, 500}
QueryEmbeddings == {<<>>, <<1, 0>>}

\* what the provider may do on a non-streaming call
ChatOutcomes ==
    {[kind |-> "ok", code |-> 200, content |-> r] : r \in ModelReplies}
    \cup {[kind |-> k, code |-> 200, content |-> <<>>] : k \in {"null", "nochoices"}}
    \cup {[kind |-> "status", code |-> c, content |-> <<>>] : c \in StatusCodes}
    \cup {[kind |-> "exception", code |-> 0, content |-> <<>>]}

\* what the provider may do on a streaming call
StreamOutcomes ==
    {[kind |-> "ok", code |-> 200, content |-> r] : r \in ModelReplies \cup {<<>>}}
    \cup {[kind |-> "status", code |-> c, content |-> <<>>] : c \in StatusCodes}
    \cup {[kind |-> "exception", code |-> 0, content |-> r] : r \in {<<>>, <<"y">>}}

\* the knowledge base of the answer calls: a folder with one one-line document,
\* and the index initialize_knowledge_base built from it
KnowledgeFolder ==
    [f \in FileNames |-> IF f = FileA THEN File(<<[char |-> "d", count |-> 1]>>) ELSE NoFile]
KnowledgeModel == <<"e">>
KnowledgeChunks ==
    BuildStore(load_documents_from_folder(KnowledgeFolder, <<FileA>>), KnowledgeModel, {}, 0)
\* the chunks with their texts written out, as the answer calls read them
KnowledgeBase ==
    [i \in 1..Len(KnowledgeChunks) |->
        [KnowledgeChunks[i] EXCEPT !.content = Expand(@)]]
KnowledgeMetadata ==
    [files |-> file_hashes(KnowledgeFolder,
                           load_documents_from_folder(KnowledgeFolder, <<FileA>>)),
     model_id |-> KnowledgeModel]

ErrorGeneratingResponse == 
    <<"E", "r", "r", "o", "r", " ", "g", "e", "n", "e", "r", "a", "t", "i", "n", "g", " ", "r", "e", "s", "p", "o", "n", "s", "e">>

InitRAG ==
    /\ cached_prompts = <<>>
    /\ context_chunks = <<>>
    /\ context_memory = <<>>
    /\ memory_seq = 0
    /\ store = KnowledgeBase
    /\ vs_metadata = KnowledgeMetadata
    /\ folder = KnowledgeFolder
    /\ metadata_file = WrittenFile(KnowledgeMetadata)
    /\ vectors_file = WrittenFile(KnowledgeChunks)
    /\ build = [NoBuild EXCEPT !.n = 1, !.embed_model_id = KnowledgeModel,
                                !.folder = KnowledgeFolder, !.phase = "done",
                                !.embed_calls = 1, !.returned = KnowledgeChunks]
    /\ reader = NoReader
    /\ built = {[files |-> KnowledgeMetadata.files, model_id |-> KnowledgeModel,
                 chunks |-> KnowledgeChunks]}
    /\ now = 0
    /\ steps = 0
    /\ last = NoCall
    /\ stream = IdleStream
    /\ last_op = NoOp
    /\ first_put = {}
    /\ sessions = NoSessions
    /\ conversation_threads = <<>>
    /\ adders = NoAdders
    /\ message_history = <<>>
    /\ chunking = NoChunking

NewCall(user_question, use_cache, store_memory, retrieve_past_contexts, streaming) ==
    [NoCall EXCEPT !.streaming = streaming, !.question = user_question,
                   !.use_cache = use_cache, !.store_memory = store_memory,
                   !.retrieve_past_contexts = retrieve_past_contexts,
                   !.done = ~streaming]

\* past_contexts: what the memory check retrieved ([] when it is switched off)
PastContexts(retrieve_past_contexts, user_question) ==
    IF retrieve_past_contexts
    THEN retrieve_similar_contexts(context_memory, user_question, 3, 0)
    ELSE {<<>>}

PastSummary(past_contexts) ==
    [k \in 1..Len(past_contexts) |->
        [query |-> past_contexts[k].query, response |-> past_contexts[k].response]]

\* OptimizedRAG.answer_with_optimization: the "response" of the returned dict, for
\* the cached rows `prompts`, the retrieved `past_contexts` and a provider that
\* does `outcome`
answer_with_optimization_response(prompts, past_contexts, user_question, use_cache, outcome) ==
    LET cached_response == get_cached_response_result(prompts, user_question, None)
        k == FirstExactMatch(past_contexts, user_question)
        response == _invoke_model_with_context(outcome)
    IN IF use_cache /\ cached_response.cached THEN cached_response.response
       ELSE IF k # 0 THEN past_contexts[k].response
       ELSE IF response.none THEN ErrorGeneratingResponse
       ELSE response.text

\* OptimizedRAG.answer_with_optimization_stream: the concatenation of all tokens
\* the generator yields when it is read to its end
answer_with_optimization_stream_text(prompts, past_contexts, user_question, use_cache, outcome) ==
    LET cached_response == get_cached_response_result(prompts, user_question, None)
        k == FirstExactMatch(past_contexts, user_question)
    IN IF use_cache /\ cached_response.cached THEN Concat(Chars(cached_response.response))
       ELSE IF k # 0 THEN Concat(Chars(past_contexts[k].response))
       ELSE Concat(_invoke_model_with_context_stream(outcome))

\* OptimizedRAG.answer_with_optimization.  query_embedding is what the Embedding
\* Provider returns for the question and outcome what the Model Provider does,
\* should the call get that far.
AnswerWith(model_id, user_question, use_cache, store_memory, retrieve_past_contexts, query_embedding, outcome) ==
    /\ ~stream.active
    /\ steps' = steps + 1
    /\ now' = now + 1
    /\ UNCHANGED <<store, stream, last_op, first_put, sessions, chunking, conversation_threads, adders, diskVars>>
    /\ LET call == [NewCall(user_question, use_cache, store_memory,
                               retrieve_past_contexts, FALSE) EXCEPT !.model_id = model_id]
           cached_response == get_cached_response_result(cached_prompts, user_question, None)
       IN IF use_cache /\ cached_response.cached
          THEN /\ cached_prompts' = get_cached_response_rows(cached_prompts, user_question,
                                                             None, now + 1)
               /\ last' = [call EXCEPT !.outcome = "cache",
                                       !.other_path = answer_with_optimization_stream_text(
                                           cached_prompts, <<>>, user_question, use_cache, outcome),
                                       !.response = cached_response.response,
                                       !.emitted = cached_response.response,
                                       !.cache_hit = TRUE,
                                       !.tokens_saved = cached_response.tokens_saved]
               /\ UNCHANGED <<context_chunks, memVars, message_history>>
          ELSE \E past_contexts \in PastContexts(retrieve_past_contexts, user_question) :
               LET k == FirstExactMatch(past_contexts, user_question)
                   call2 == [call EXCEPT !.memory_reads = IF retrieve_past_contexts THEN 1 ELSE 0,
                                         !.memory_reused = past_contexts # <<>>,
                                         !.past = PastSummary(past_contexts),
                                         !.other_path = answer_with_optimization_stream_text(
                                             cached_prompts, past_contexts, user_question,
                                             use_cache, outcome)]
               IN IF k # 0
                  THEN /\ last' = [call2 EXCEPT !.outcome = "memory",
                                                !.response = past_contexts[k].response,
                                                !.emitted = past_contexts[k].response]
                       /\ UNCHANGED <<cached_prompts, context_chunks, memVars, message_history>>
                  ELSE LET retrieved_results == semantic_search(store, query_embedding, 3)
                           context == combined_context(past_contexts, retrieved_results)
                           response == _invoke_model_with_context(outcome)
                           call3 == [call2 EXCEPT !.embed_calls = 1, !.model_calls = 1,
                                                  !.provider = outcome.kind,
                                                  !.contexts_retrieved = Len(retrieved_results), !.retrieved = retrieved_results,
                                                  !.context = context,
                                                  !.provider_failed = ProviderFailed(outcome)]
                       IN /\ message_history' = _invoke_model_with_context_history(message_history, outcome)
                          /\ context_chunks' = CacheRetrievedChunks(context_chunks,
                                                                    retrieved_results, now + 1)
                          /\ IF response.none
                             THEN /\ last' = [call3 EXCEPT !.outcome = "error",
                                                           !.response = ErrorGeneratingResponse,
                                                           !.emitted = ErrorGeneratingResponse,
                                                           !.error = TRUE]
                                  /\ UNCHANGED <<cached_prompts, memVars>>
                             ELSE /\ cached_prompts' =
                                        WriteBackCache(cached_prompts, use_cache, user_question,
                                                       context, response.text, model_id, now + 1)
                                  /\ context_memory' =
                                        WriteBackMemory(context_memory, memory_seq, store_memory,
                                                        user_question, context, response.text,
                                                        "optimized_rag", Len(retrieved_results),
                                                        Len(past_contexts), model_id, now + 1)
                                  /\ memory_seq' =
                                        WriteBackMemorySeq(context_memory, memory_seq,
                                                           store_memory, user_question, context)
                                  /\ last' = [call3 EXCEPT
                                                !.outcome = "fresh",
                                                !.response = response.text,
                                                !.emitted = response.text,
                                                !.tokens_saved =
                                                    IF use_cache
                                                    THEN estimated_tokens_saved(context)
                                                    ELSE 0]

\* the call as the application makes it, with the chat model it was started with
Answer(user_question, use_cache, store_memory, retrieve_past_contexts, query_embedding, outcome) ==
    AnswerWith(ChatModel, user_question, use_cache, store_memory, retrieve_past_contexts,
               query_embedding, outcome)

\* the code of answer_with_optimization_stream after its token loop: the write-back
StreamWriteBack(call, store_memory, ts) ==
    /\ cached_prompts' = WriteBackCache(cached_prompts, call.use_cache, call.question,
                                        call.context, call.emitted, call.model_id, ts)
    /\ context_memory' = WriteBackMemory(context_memory, memory_seq, store_memory,
                                         call.question, call.context, call.emitted,
                                         "optimized_rag_stream", call.contexts_retrieved,
                                         Len(call.past), call.model_id, ts)
    /\ memory_seq' = WriteBackMemorySeq(context_memory, memory_seq, store_memory,
                                        call.question, call.context)
    /\ last' = [call EXCEPT !.done = TRUE,
                            !.tokens_saved = IF call.use_cache
                                             THEN estimated_tokens_saved(call.context)
                                             ELSE 0]
    /\ stream' = IdleStream

\* the generator runs to its first yield, or to its end when it has nothing to yield
StreamYieldFirst(call, source, tokens, store_memory) ==
    IF tokens = <<>>
    THEN /\ last' = [call EXCEPT !.done = TRUE]
         /\ stream' = IdleStream
    ELSE /\ last' = [call EXCEPT !.emitted = Head(tokens)]
         /\ stream' = [active |-> TRUE, source |-> source, pending |-> Tail(tokens),
                    store_memory |-> store_memory]

\* OptimizedRAG.answer_with_optimization_stream: the call and the consumer's first next()
StreamBeginWith(model_id, user_question, use_cache, store_memory, retrieve_past_contexts, query_embedding, outcome) ==
    /\ ~stream.active
    /\ steps' = steps + 1
    /\ now' = now + 1
    /\ UNCHANGED <<store, last_op, first_put, sessions, chunking, conversation_threads, adders, message_history, diskVars>>
    /\ LET call == [NewCall(user_question, use_cache, store_memory,
                               retrieve_past_contexts, TRUE) EXCEPT !.model_id = model_id]
           cached_response == get_cached_response_result(cached_prompts, user_question, None)
       IN IF use_cache /\ cached_response.cached
          THEN /\ cached_prompts' = get_cached_response_rows(cached_prompts, user_question,
                                                             None, now + 1)
               /\ StreamYieldFirst([call EXCEPT !.outcome = "cache",
                                                !.other_path = answer_with_optimization_response(
                                                    cached_prompts, <<>>, user_question,
                                                    use_cache, outcome),
                                                !.response = cached_response.response,
                                                !.cache_hit = TRUE,
                                                !.tokens_saved = cached_response.tokens_saved],
                                   "cache", Chars(cached_response.response), store_memory)
               /\ UNCHANGED <<context_chunks, memVars>>
          ELSE \E past_contexts \in PastContexts(retrieve_past_contexts, user_question) :
               LET k == FirstExactMatch(past_contexts, user_question)
                   call2 == [call EXCEPT !.memory_reads = IF retrieve_past_contexts THEN 1 ELSE 0,
                                         !.memory_reused = past_contexts # <<>>,
                                         !.past = PastSummary(past_contexts),
                                         !.other_path = answer_with_optimization_response(
                                             cached_prompts, past_contexts, user_question,
                                             use_cache, outcome)]
               IN IF k # 0
                  THEN /\ StreamYieldFirst([call2 EXCEPT !.outcome = "memory",
                                                         !.response = past_contexts[k].response],
                                           "memory", Chars(past_contexts[k].response),
                                           store_memory)
                       /\ UNCHANGED <<cached_prompts, context_chunks, memVars>>
                  ELSE LET retrieved_results == semantic_search(store, query_embedding, 3)
                           context == combined_context(past_contexts, retrieved_results)
                           tokens == _invoke_model_with_context_stream(outcome)
                           call3 == [call2 EXCEPT !.outcome = "fresh",
                                                  !.provider = outcome.kind,
                                                  !.response = Concat(tokens),
                                                  !.embed_calls = 1, !.model_calls = 1,
                                                  !.contexts_retrieved = Len(retrieved_results), !.retrieved = retrieved_results,
                                                  !.context = context,
                                                  !.provider_failed = ProviderFailed(outcome)]
                       IN /\ context_chunks' = CacheRetrievedChunks(context_chunks,
                                                                    retrieved_results, now + 1)
                          /\ IF tokens = <<>>
                             THEN StreamWriteBack(call3, store_memory, now + 1)
                             ELSE /\ StreamYieldFirst(call3, "model", tokens, store_memory)
                                  /\ UNCHANGED <<cached_prompts, memVars>>

StreamBegin(user_question, use_cache, store_memory, retrieve_past_contexts, query_embedding, outcome) ==
    StreamBeginWith(ChatModel, user_question, use_cache, store_memory, retrieve_past_contexts,
                    query_embedding, outcome)

\* the consumer's next(): the generator yields its next token, or runs to its end
StreamNext ==
    /\ stream.active
    /\ UNCHANGED <<now, steps, store, last_op, first_put, sessions, chunking, conversation_threads, adders, message_history, context_chunks, diskVars>>
    /\ IF stream.pending # <<>>
       THEN /\ last' = [last EXCEPT !.emitted = @ \o Head(stream.pending)]
            /\ stream' = [stream EXCEPT !.pending = Tail(@)]
            /\ UNCHANGED <<cached_prompts, memVars>>
       ELSE IF stream.source = "model"
       THEN StreamWriteBack(last, stream.store_memory, now)
       ELSE /\ last' = [last EXCEPT !.done = TRUE]
            /\ stream' = IdleStream
            /\ UNCHANGED <<cached_prompts, memVars>>

\* the consumer stops reading: the suspended generator is closed where it stands
StreamStop ==
    /\ stream.active
    /\ last' = [last EXCEPT !.stopped = TRUE]
    /\ stream' = IdleStream
    /\ UNCHANGED <<now, steps, store, last_op, first_put, sessions, chunking, conversation_threads, adders, message_history, cached_prompts, context_chunks,
                   memVars, diskVars>>

NextRAG ==
    \/ /\ steps < MaxCalls
       /\ \E q \in Questions, uc \in BOOLEAN, sm \in BOOLEAN, rp \in BOOLEAN,
             e \in QueryEmbeddings, o \in ChatOutcomes :
             Answer(q, uc, sm, rp, e, o)
    \/ /\ steps < MaxCalls
       /\ \E q \in Questions, uc \in BOOLEAN, sm \in BOOLEAN, rp \in BOOLEAN,
             e \in QueryEmbeddings, o \in StreamOutcomes :
             StreamBegin(q, uc, sm, rp, e, o)
    \/ StreamNext
    \/ StreamStop

Spec == InitRAG /\ [][NextRAG]_vars

\* The same calls, one more of them, over fewer inputs: two spellings of one
\* question, and a provider that answers or refuses with status 500.
MaxServeCalls == 3
ServeQuestions == {<<"a">>, <<"A", " ">>}
ServeOutcomes ==
    {[kind |-> "ok", code |-> 200, content |-> <<"y", "z">>],
     [kind |-> "status", code |-> 500, content |-> <<>>]}

NextServe ==
    \/ /\ steps < MaxServeCalls
       /\ \E q \in ServeQuestions, uc \in BOOLEAN, sm \in BOOLEAN, rp \in BOOLEAN,
             e \in QueryEmbeddings, o \in ServeOutcomes :
             Answer(q, uc, sm, rp, e, o)
    \/ /\ steps < MaxServeCalls
       /\ \E q \in ServeQuestions, uc \in BOOLEAN, sm \in BOOLEAN, rp \in BOOLEAN,
             e \in QueryEmbeddings, o \in ServeOutcomes :
             StreamBegin(q, uc, sm, rp, e, o)
    \/ StreamNext
    \/ StreamStop

SpecServe == InitRAG /\ [][NextServe]_vars

-----------------------------------------------------------------------------
(* Properties of the answer calls.  A step that raises `steps` is a call;  *)
(* `last` is the call's result and statistics.                             *)

\* C1: after a non-streaming call with use_cache=true returned a fresh response R
\* for question Q, the next call with the same question text and use_cache=true
\* returns R with cache_hit=true and makes no Model Provider call, whatever the
\* first call retrieved (an empty assembled context included).
C1_NextIdenticalCallHitsCache ==
    [][ ( /\ last.outcome = "fresh" /\ ~last.streaming /\ last.use_cache
          /\ steps' = steps + 1
          /\ last'.question = last.question /\ last'.use_cache )
        => ( /\ last'.cache_hit
             /\ last'.response = last.response
             /\ last'.model_calls = 0 ) ]_vars

\* C4: a non-streaming call whose Model Provider call fails (HTTP error status or
\* exception) ends in the Error outcome with the error flag set, and leaves the
\* cached responses and the memory store exactly as they were.
C4_ProviderFailureWritesNothing ==
    [][ ( steps' = steps + 1 /\ ~last'.streaming /\ last'.provider_failed )
        => ( /\ last'.outcome = "error"
             /\ last'.error
             /\ last'.response = ErrorGeneratingResponse
             /\ cached_prompts' = cached_prompts
             /\ context_memory' = context_memory
             /\ memory_seq' = memory_seq ) ]_vars

\* a failed non-streaming call that had cached responses and memories to spoil
C4_Witness ==
    /\ steps > 0 /\ ~last.streaming /\ last.provider_failed /\ last.outcome = "error"
    /\ cached_prompts # <<>>
    /\ context_memory # <<>>

\* C5: when the Model Provider fails during a streaming call (HTTP error status or
\* exception), the step that ends the stream adds no row to the prompt cache and
\* stores nothing in memory.
C5_StreamFailureWritesNothing ==
    [][ ( /\ last'.streaming /\ last'.provider_failed
          /\ last'.done /\ (~last.done \/ steps' = steps + 1) )
        => ( /\ cached_prompts' = cached_prompts
             /\ context_memory' = context_memory ) ]_vars

\* C6: a call with use_cache=true that finds a row for the exact question text in
\* the prompt cache returns that row's response with cache_hit=true; it makes no
\* Model Provider call, no embedding call, no memory lookup, writes nothing to
\* the memory store or the chunk table, and changes the cached responses only in
\* the access bookkeeping of the row it hit.  A stream of it that is read to the
\* end has emitted exactly the stored response.
C6_CacheHitServesStoredResponse ==
    [][ /\ ( steps' = steps + 1 /\ last'.use_cache )
           => \A i \in 1..Len(cached_prompts) :
                 cached_prompts[i].query = last'.question
                 => /\ last'.cache_hit
                    /\ last'.outcome = "cache"
                    /\ last'.response = cached_prompts[i].response
                    /\ last'.streaming \/ last'.emitted = cached_prompts[i].response
                    /\ last'.model_calls = 0
                    /\ last'.embed_calls = 0
                    /\ last'.memory_reads = 0
                    /\ context_memory' = context_memory
                    /\ memory_seq' = memory_seq
                    /\ context_chunks' = context_chunks
                    /\ Len(cached_prompts') = Len(cached_prompts)
                    /\ \A j \in 1..Len(cached_prompts) :
                          IF j = i
                          THEN cached_prompts'[j] =
                                  [cached_prompts[j] EXCEPT !.access_count = @ + 1,
                                                            !.last_accessed = now']
                          ELSE cached_prompts'[j] = cached_prompts[j]
        /\ ( last'.cache_hit /\ last'.done /\ ~last'.stopped )
           => last'.emitted = last'.response ]_vars

\* a stream served from one of two cached rows and read to its end
C6_Witness ==
    /\ last.cache_hit /\ last.streaming /\ last.done /\ ~last.stopped
    /\ last.emitted # <<>>
    /\ Len(cached_prompts) = 2
    /\ \E i \in 1..2 : /\ cached_prompts[i].query = last.question
                        /\ cached_prompts[i].access_count = 2
                        /\ cached_prompts[3 - i].response # last.response

\* C7: a call that does not hit the cache and has retrieve_past_contexts on, and
\* whose retrieval returns an entry with a query equal to the question after
\* trimming and lower-casing, returns the stored response of the first such entry
\* verbatim; it makes no Model Provider call and no embedding call, and writes
\* nothing to the cache or the memory.  A stream of it that is read to the end
\* has emitted exactly that response.
C7_MemoryMatchServesStoredResponse ==
    [][ /\ ( steps' = steps + 1 /\ ~last'.cache_hit /\ last'.memory_reads = 1 )
           => /\ \E past_contexts \in retrieve_similar_contexts(context_memory,
                                                                 last'.question, 3, 0) :
                    last'.past = PastSummary(past_contexts)
              /\ \A k \in 1..Len(last'.past) :
                    ( /\ lower(strip(last'.past[k].query)) = lower(strip(last'.question))
                      /\ \A j \in 1..(k - 1) :
                            lower(strip(last'.past[j].query)) # lower(strip(last'.question)) )
                    => /\ last'.outcome = "memory"
                       /\ last'.response = last'.past[k].response
                       /\ last'.streaming \/ last'.emitted = last'.past[k].response
                       /\ last'.model_calls = 0
                       /\ last'.embed_calls = 0
                       /\ ~last'.error
                       /\ cached_prompts' = cached_prompts
                       /\ context_chunks' = context_chunks
                       /\ context_memory' = context_memory
                       /\ memory_seq' = memory_seq
        /\ ( last'.outcome = "memory" /\ last'.done /\ ~last'.stopped )
           => last'.emitted = last'.response ]_vars

\* a question served from memory where the retrieval returned two matching entries
\* with different responses, under another spelling than the question's
C7_Witness ==
    /\ last.outcome = "memory" /\ last.done /\ ~last.stopped
    /\ Len(last.past) = 2
    /\ last.past[1].response # last.past[2].response
    /\ last.past[1].query # last.question
    /\ lower(strip(last.past[2].query)) = lower(strip(last.question))
    /\ last.response = last.past[1].response

-----------------------------------------------------------------------------
(* vector_store_manager.py: builds of the index, edits of the corpus       *)
(* folder, restarts of the process.                                        *)

MaxIndexSteps == 3
MaxEmbedFailures == 1
Bodies == {ShortText, LongText, EmptyText, BadBytes}

\* the folders a first build may find
Corpora ==
    {dir \in [FileNames -> {NoFile} \cup {File(b) : b \in Bodies}] :
        /\ dir[FileB] \in {NoFile, File(ShortText), File(BadBytes)}
        /\ dir[FileN] \in {NoFile, File(ShortText)}}

\* everything but the index and the clock stays as it is
IndexFrame ==
    UNCHANGED <<cached_prompts, context_chunks, last_op, first_put, sessions, chunking, conversation_threads, adders, message_history, memVars, last, stream>>

\* a new VectorStoreManager on an empty cache directory, the folder one of `corpora`
IndexStart(corpora) ==
    /\ cached_prompts = <<>>
    /\ context_chunks = <<>>
    /\ context_memory = <<>>
    /\ memory_seq = 0
    /\ now = 0
    /\ steps = 0
    /\ last_op = NoOp
    /\ first_put = {}
    /\ sessions = NoSessions
    /\ conversation_threads = <<>>
    /\ adders = NoAdders
    /\ message_history = <<>>
    /\ chunking = NoChunking
    /\ last = NoCall
    /\ stream = IdleStream
    /\ store = <<>>
    /\ vs_metadata = NoMetadata
    /\ folder \in corpora
    /\ metadata_file = MissingFile
    /\ vectors_file = MissingFile
    /\ build = NoBuild
    /\ reader = NoReader
    /\ built = {}

InitIndex == IndexStart(Corpora)

\* a file of the folder is created or overwritten
WriteFile(f, bytes) ==
    /\ steps < MaxIndexSteps
    /\ build.phase \in {"none", "done", "crashed"}
    /\ folder[f] # File(bytes)
    /\ folder' = [folder EXCEPT ![f] = File(bytes)]
    /\ steps' = steps + 1
    /\ UNCHANGED <<now, store, vs_metadata, metadata_file, vectors_file, build, reader, built>>
    /\ IndexFrame

\* a file of the folder is deleted
RemoveFile(f) ==
    /\ steps < MaxIndexSteps
    /\ build.phase \in {"none", "done", "crashed"}
    /\ folder[f].exists
    /\ folder' = [folder EXCEPT ![f] = NoFile]
    /\ steps' = steps + 1
    /\ UNCHANGED <<now, store, vs_metadata, metadata_file, vectors_file, build, reader, built>>
    /\ IndexFrame

\* the sets of chunk names whose embedding call may fail during one build
FailureSets(documents) ==
    {failed \in SUBSET ChunkNames(documents) : Cardinality(failed) <= MaxEmbedFailures}

\* VectorStoreManager.build_from_folder, the whole call
Build(embed_model_id) ==
    /\ steps < MaxIndexSteps
    /\ build.phase \in {"none", "done", "crashed"}
    /\ steps' = steps + 1
    /\ IndexFrame
    /\ UNCHANGED <<folder, reader>>
    /\ IF _is_cache_valid(vectors_file, vs_metadata, folder, embed_model_id)
       THEN /\ store' = IF vectors_file.complete THEN vectors_file.data ELSE store
            /\ build' = [NoBuild EXCEPT !.n = build.n + 1,
                                        !.embed_model_id = embed_model_id,
                                        !.folder = folder, !.phase = "done",
                                        !.cache_hit = TRUE,
                                        !.returned = _load_from_cache(vectors_file)]
            /\ UNCHANGED <<now, vs_metadata, metadata_file, vectors_file, built>>
       ELSE \E order \in listdir(folder) :
            LET documents == load_documents_from_folder(folder, order)
            IN \E failed \in FailureSets(documents) :
               LET new_store == BuildStore(documents, embed_model_id, failed, now + 1)
                   new_metadata == [files |-> file_hashes(folder, documents),
                                    model_id |-> embed_model_id]
               IN /\ now' = now + 1
                  /\ vs_metadata' = new_metadata
                  /\ metadata_file' = WrittenFile(new_metadata)
                  /\ vectors_file' = WrittenFile(new_store)
                  /\ store' = new_store
                  /\ build' = [NoBuild EXCEPT !.n = build.n + 1,
                                              !.embed_model_id = embed_model_id,
                                              !.folder = folder, !.phase = "done",
                                              !.embed_calls = Cardinality(ChunkNames(documents)),
                                              !.order = order, !.failed = failed,
                                              !.returned = new_store]
                  /\ built' = built \cup {[files |-> new_metadata.files,
                                           model_id |-> embed_model_id,
                                           chunks |-> new_store]}

\* the process ends and a new one constructs its VectorStoreManager on the same
\* cache directory
Restart ==
    /\ steps < MaxIndexSteps
    /\ build.phase \in {"none", "done", "crashed"}
    /\ steps' = steps + 1
    /\ store' = <<>>
    /\ vs_metadata' = _load_metadata(metadata_file)
    /\ UNCHANGED <<now, folder, metadata_file, vectors_file, build, reader, built>>
    /\ IndexFrame

\* VectorStoreManager.clear_cache
ClearIndex ==
    /\ steps < MaxIndexSteps
    /\ build.phase \in {"none", "done", "crashed"}
    /\ steps' = steps + 1
    /\ vectors_file' = MissingFile
    /\ metadata_file' = MissingFile
    /\ store' = <<>>
    /\ vs_metadata' = NoMetadata
    /\ build' = NoBuild
    /\ UNCHANGED <<now, folder, reader, built>>
    /\ IndexFrame

NextIndex ==
    \/ \E f \in FileNames, b \in Bodies : WriteFile(f, b)
    \/ \E f \in FileNames : RemoveFile(f)
    \/ \E m \in EmbedModels : Build(m)
    \/ Restart
    \/ ClearIndex

SpecIndex == InitIndex /\ [][NextIndex]_vars

-----------------------------------------------------------------------------
(* The rebuild write by write, with a process that may die between the     *)
(* writes and a second process that builds from the same cache directory.  *)

\* build_from_folder up to and including _save_metadata() (the whole call on the
\* cache-hit path)
BuildStart(embed_model_id) ==
    /\ steps < MaxIndexSteps
    /\ build.phase \in {"none", "done", "crashed"}
    /\ steps' = steps + 1
    /\ IndexFrame
    /\ UNCHANGED <<folder, reader, vectors_file>>
    /\ IF _is_cache_valid(vectors_file, vs_metadata, folder, embed_model_id)
       THEN /\ store' = IF vectors_file.complete THEN vectors_file.data ELSE store
            /\ build' = [NoBuild EXCEPT !.n = build.n + 1,
                                        !.embed_model_id = embed_model_id,
                                        !.folder = folder, !.phase = "done",
                                        !.cache_hit = TRUE,
                                        !.returned = _load_from_cache(vectors_file)]
            /\ UNCHANGED <<now, vs_metadata, metadata_file, built>>
       ELSE \E order \in listdir(folder) :
            LET documents == load_documents_from_folder(folder, order)
            IN \E failed \in FailureSets(documents) :
               LET new_store == BuildStore(documents, embed_model_id, failed, now + 1)
                   new_metadata == [files |-> file_hashes(folder, documents),
                                    model_id |-> embed_model_id]
               IN /\ now' = now + 1
                  /\ vs_metadata' = new_metadata
                  /\ metadata_file' = WrittenFile(new_metadata)
                  /\ build' = [NoBuild EXCEPT !.n = build.n + 1,
                                              !.embed_model_id = embed_model_id,
                                              !.folder = folder,
                                              !.phase = "metadata_saved",
                                              !.embed_calls = Cardinality(ChunkNames(documents)),
                                              !.order = order, !.failed = failed,
                                              !.pending = new_store]
                  /\ built' = built \cup {[files |-> new_metadata.files,
                                           model_id |-> embed_model_id,
                                           chunks |-> new_store]}
                  /\ UNCHANGED store

\* _save_to_cache: open(self.vectors_file, 'wb') empties the file
SaveOpen ==
    /\ build.phase = "metadata_saved"
    /\ vectors_file' = TruncatedFile
    /\ build' = [build EXCEPT !.phase = "vectors_open"]
    /\ UNCHANGED <<now, steps, store, vs_metadata, folder, metadata_file, reader, built>>
    /\ IndexFrame

\* _save_to_cache: pickle.dump and close; then self.store = store and the return
SaveDump ==
    /\ build.phase = "vectors_open"
    /\ vectors_file' = WrittenFile(build.pending)
    /\ store' = build.pending
    /\ build' = [build EXCEPT !.phase = "done", !.returned = build.pending,
                              !.pending = <<>>]
    /\ UNCHANGED <<now, steps, vs_metadata, folder, metadata_file, reader, built>>
    /\ IndexFrame

\* the building process dies between two writes; a new process constructs its
\* VectorStoreManager on what is on disk
Crash ==
    /\ build.phase \in {"metadata_saved", "vectors_open"}
    /\ store' = <<>>
    /\ vs_metadata' = _load_metadata(metadata_file)
    /\ build' = [build EXCEPT !.phase = "crashed", !.pending = <<>>]
    /\ UNCHANGED <<now, steps, folder, metadata_file, vectors_file, reader, built>>
    /\ IndexFrame

\* a second process constructs a VectorStoreManager and calls build_from_folder,
\* which finds the cache valid and returns _load_from_cache()
ReaderHit(embed_model_id) ==
    LET meta == _load_metadata(metadata_file)
        found == [ran |-> TRUE, files |-> meta.files, model_id |-> meta.model_id,
                  chunks |-> _load_from_cache(vectors_file)]
    IN /\ _is_cache_valid(vectors_file, meta, folder, embed_model_id)
       /\ reader # found
       /\ reader' = found
       /\ UNCHANGED <<now, steps, store, vs_metadata, folder, metadata_file, vectors_file,
                      build, built>>
       /\ IndexFrame

NextRebuild ==
    \/ \E f \in FileNames, b \in Bodies : WriteFile(f, b)
    \/ \E f \in FileNames : RemoveFile(f)
    \/ \E m \in EmbedModels : BuildStart(m)
    \/ SaveOpen
    \/ SaveDump
    \/ Crash
    \/ \E m \in EmbedModels : ReaderHit(m)

\* the folders of Corpora that hold at most the first text file
SingleFileCorpora == {dir \in Corpora : ~dir[FileB].exists /\ ~dir[FileN].exists}

InitRebuild == IndexStart(SingleFileCorpora)

SpecRebuild == InitRebuild /\ [][NextRebuild]_vars

-----------------------------------------------------------------------------
(* Properties of the builds.  A step that raises build.n is a build; the   *)
(* build before it is in `build`, with the folder it found.                *)

\* C8: a build that follows a completed build with the same embed_model_id and an
\* unchanged folder, in the same process or after a restart, makes no Embedding
\* Provider call and returns the chunk set the first build persisted, whatever
\* the corpus holds.
C8_SecondBuildEmbedsNothing ==
    [][ ( /\ build.phase = "done"
          /\ build'.n = build.n + 1
          /\ build'.embed_model_id = build.embed_model_id
          /\ build'.folder = build.folder )
        => ( /\ build'.embed_calls = 0
             /\ build'.returned = vectors_file.data ) ]_vars

\* C9: a build that follows a completed build after a supported file was modified,
\* added or removed, or that asks for another embed_model_id, embeds every chunk
\* of every document again: it is no cache hit, it calls the Embedding Provider
\* once per chunk of the current corpus, and every chunk it returns was made by
\* this build from a file of the current folder.
C9_ChangeForcesFullRebuild ==
    [][ ( /\ build.phase = "done"
          /\ build'.n = build.n + 1
          /\ \/ current_files(build'.folder) # current_files(build.folder)
             \/ build'.embed_model_id # build.embed_model_id )
        => ( /\ ~build'.cache_hit
             /\ \E order \in listdir(folder) :
                   build'.embed_calls =
                       Cardinality(ChunkNames(load_documents_from_folder(folder, order)))
             /\ \A i \in 1..Len(build'.returned) :
                   LET chunk == build'.returned[i]
                   IN /\ chunk.timestamp = now'
                      /\ chunk.timestamp > now
                      /\ folder[chunk.source].exists
                      /\ chunk.embedding = EmbeddingVector(build'.embed_model_id,
                                                           chunk.content)
             /\ store' = build'.returned
             /\ vectors_file' = WrittenFile(build'.returned) ) ]_vars

\* C10: whenever a second process judges the cache valid, the chunk set it loads
\* is the one some rebuild made for exactly the fingerprints and the model it read
\* from the metadata: the complete old index or the complete new one, never new
\* fingerprints with old, emptied or partly written chunks.
C10_ReaderLoadsOneIndex ==
    reader.ran =>
        \E b \in built : /\ b.files = reader.files
                         /\ b.model_id = reader.model_id
                         /\ b.chunks = reader.chunks

-----------------------------------------------------------------------------
(* Properties of the streaming write-back.  A stream ends in the step that *)
(* sets last.done; a consumer that stops reading sets last.stopped.        *)

\* C11: a streaming call whose consumer stops reading before the tokens are
\* exhausted writes neither the prompt cache nor the memory store; a fresh stream
\* writes only in the step that ends it, after all tokens were emitted; and with
\* use_cache and store_memory both on, that step inserts the cache row and stores
\* the memory entry together, each with the complete response.
C11_StreamWriteBackAllOrNothing ==
    [][ /\ ( last'.stopped /\ ~last.stopped )
           => /\ cached_prompts' = cached_prompts
              /\ context_memory' = context_memory
              /\ memory_seq' = memory_seq
        /\ ( /\ last'.streaming /\ last'.outcome = "fresh"
             /\ \/ cached_prompts' # cached_prompts
                \/ context_memory' # context_memory )
           => /\ last'.done /\ ~last'.stopped
              /\ last'.emitted = last'.response
        /\ ( /\ last'.streaming /\ last'.outcome = "fresh"
             /\ last'.done /\ ~last'.stopped
             /\ (steps' = steps + 1 \/ ~last.done)
             /\ last'.use_cache /\ last'.store_memory )
           => /\ Len(cached_prompts') = Len(cached_prompts) + 1
              /\ LET row == cached_prompts'[Len(cached_prompts')]
                 IN /\ row.query = last'.question
                    /\ row.context = last'.context
                    /\ row.response = last'.emitted
              /\ \E j \in 1..Len(context_memory') :
                    /\ context_memory'[j].query = last'.question
                    /\ context_memory'[j].context = last'.context
                    /\ IF j > Len(context_memory)
                       THEN context_memory'[j].response = last'.emitted
                       ELSE context_memory'[j].access_count
                                = context_memory[j].access_count + 1 ]_vars

\* C12: for the same arguments, the same contents of the stores and a provider
\* that returns the same text, the concatenation of all tokens of
\* answer_with_optimization_stream equals the response of
\* answer_with_optimization, on the cache path, the memory path and the model
\* path, whatever the text is.
C12_StreamedTextEqualsResponse ==
    ( last.outcome # "none" /\ last.provider \in {"none", "ok"} )
        => last.other_path = last.response

-----------------------------------------------------------------------------
(* Concurrent cache_response and store_context calls for one (query,       *)
(* context), statement by statement.                                       *)

SharedQuery == <<"a">>
SharedContexts == {<<>>, <<"c">>}

\* everything but the two tables and the sessions stays as it is
SessionFrame ==
    UNCHANGED <<context_chunks, now, last_op, first_put, conversation_threads, adders, message_history,
                chunking, ragVars, diskVars>>

\* a caller enters cache_response or store_context: the hashes, sqlite3.connect
BeginCall(p, call, context, response) ==
    /\ sessions[p].pc = "idle"
    /\ \A o \in Sessions : sessions[o].pc # "idle" => sessions[o].context = context
    /\ sessions' = [sessions EXCEPT ![p] = [IdleSession EXCEPT !.call = call,
                                                                !.query = SharedQuery,
                                                                !.context = context,
                                                                !.response = response,
                                                                !.pc = "insert"]]
    /\ steps' = steps + 1
    /\ UNCHANGED <<cached_prompts, memVars>>
    /\ SessionFrame

\* the INSERT statement, once no other connection holds the write lock.  An
\* IntegrityError ends cache_response (close, return False) and sends
\* store_context to its UPDATE.
Insert(p) ==
    LET me == sessions[p]
    IN /\ me.pc = "insert"
       /\ WriteLockHolders(sessions, me.call) = {}
       /\ sessions' =
            [sessions EXCEPT ![p] =
                IF me.call = "cache_response"
                THEN IF cache_response_ok(cached_prompts, me.query, me.context)
                     THEN [me EXCEPT !.pc = "commit"]
                     ELSE [me EXCEPT !.pc = "done", !.ok = FALSE]
                ELSE IF MemoryIntegrityError(context_memory, _hash_text(me.query),
                                             _hash_text(me.context))
                     THEN [me EXCEPT !.pc = "update"]
                     ELSE [me EXCEPT !.pc = "commit"]]
       /\ UNCHANGED <<steps, cached_prompts, memVars>>
       /\ SessionFrame

\* conn.commit() after the INSERT, and the return
CommitInsert(p) ==
    LET me == sessions[p]
    IN /\ me.pc = "commit"
       /\ IF me.call = "cache_response"
          THEN /\ cached_prompts' = cache_response_rows(cached_prompts, me.query, me.context,
                                                        me.response, ChatModel, 0, now)
               /\ sessions' = [sessions EXCEPT ![p] = [me EXCEPT !.pc = "done", !.ok = TRUE]]
               /\ UNCHANGED memVars
          ELSE /\ context_memory' = store_context_rows(context_memory, memory_seq, me.query,
                                                       me.context, me.response, None, <<>>,
                                                       0, ChatModel, now)
               /\ memory_seq' = store_context_seq(context_memory, memory_seq, me.query,
                                                  me.context)
               /\ sessions' = [sessions EXCEPT ![p] =
                                 [me EXCEPT !.pc = "done", !.ok = TRUE,
                                            !.id = store_context_id(context_memory, memory_seq,
                                                                    me.query, me.context)]]
               /\ UNCHANGED cached_prompts
       /\ UNCHANGED steps
       /\ SessionFrame

\* store_context after IntegrityError: the UPDATE statement
Update(p) ==
    /\ sessions[p].pc = "update"
    /\ sessions' = [sessions EXCEPT ![p].pc = "commit_update"]
    /\ UNCHANGED <<steps, cached_prompts, memVars>>
    /\ SessionFrame

\* store_context after IntegrityError: conn.commit() after the UPDATE
CommitUpdate(p) ==
    LET me == sessions[p]
    IN /\ me.pc = "commit_update"
       /\ context_memory' = store_context_rows(context_memory, memory_seq, me.query,
                                               me.context, me.response, None, <<>>,
                                               0, ChatModel, now)
       /\ sessions' = [sessions EXCEPT ![p].pc = "select"]
       /\ UNCHANGED <<steps, cached_prompts, memory_seq>>
       /\ SessionFrame

\* store_context after IntegrityError: SELECT id, and the return
SelectId(p) ==
    LET me == sessions[p]
    IN /\ me.pc = "select"
       /\ sessions' = [sessions EXCEPT ![p] =
                         [me EXCEPT !.pc = "done", !.ok = TRUE,
                                    !.id = store_context_id(context_memory, memory_seq,
                                                            me.query, me.context)]]
       /\ UNCHANGED <<steps, cached_prompts, memVars>>
       /\ SessionFrame

\* the INSERT waits for the write lock longer than the connection's timeout:
\* sqlite3.OperationalError, caught by `except Exception` (return False / -1)
LockTimeout(p) ==
    LET me == sessions[p]
    IN /\ me.pc = "insert"
       /\ WriteLockHolders(sessions, me.call) # {}
       /\ sessions' = [sessions EXCEPT ![p] = [me EXCEPT !.pc = "done", !.ok = FALSE,
                                                         !.id = -1]]
       /\ UNCHANGED <<steps, cached_prompts, memVars>>
       /\ SessionFrame

NextConcurrent ==
    \/ \E p \in Sessions, call \in {"cache_response", "store_context"},
          c \in SharedContexts, r \in Replies : BeginCall(p, call, c, r)
    \/ \E p \in Sessions : Insert(p)
    \/ \E p \in Sessions : CommitInsert(p)
    \/ \E p \in Sessions : Update(p)
    \/ \E p \in Sessions : CommitUpdate(p)
    \/ \E p \in Sessions : SelectId(p)
    \/ \E p \in Sessions : LockTimeout(p)

SpecConcurrent == InitCache /\ [][NextConcurrent]_vars

\* the calls of one kind that have returned
Returned(call) == {p \in Sessions : sessions[p].call = call /\ sessions[p].pc = "done"}

\* C13: once concurrent cache_response calls, or concurrent store_context calls,
\* for one (query, context) have all returned, the table holds exactly one row
\* for that key, with the complete response of one of the callers; the
\* store_context row's access_count is the number of calls that returned an id.
C13_ConcurrentStoresLeaveOneRow ==
    ( \A p \in Sessions : sessions[p].pc \in {"idle", "done"} )
    => /\ Returned("cache_response") # {}
          => \E i \in 1..Len(cached_prompts) :
                /\ \E p \in Returned("cache_response") :
                      /\ cached_prompts[i].query = sessions[p].query
                      /\ cached_prompts[i].context = sessions[p].context
                      /\ cached_prompts[i].response = sessions[p].response
                /\ \A j \in 1..Len(cached_prompts) : j # i =>
                      cached_prompts[j].query_hash # cached_prompts[i].query_hash
       /\ Returned("store_context") # {}
          => \E i \in 1..Len(context_memory) :
                /\ \E p \in Returned("store_context") :
                      /\ context_memory[i].query = sessions[p].query
                      /\ context_memory[i].context = sessions[p].context
                      /\ context_memory[i].response = sessions[p].response
                /\ \A j \in 1..Len(context_memory) : j # i =>
                      \/ context_memory[j].query_hash # context_memory[i].query_hash
                      \/ context_memory[j].context_hash # context_memory[i].context_hash
                /\ context_memory[i].access_count =
                      Cardinality({p \in Returned("store_context") : sessions[p].ok})

-----------------------------------------------------------------------------
(* The prompt cache used by its public methods and by answer calls at the  *)
(* same time.                                                              *)

NextCacheUse ==
    \/ NextCache
    \/ /\ steps < MaxSteps
       /\ \E q \in CacheQueries, uc \in BOOLEAN, e \in QueryEmbeddings :
             Answer(q, uc, FALSE, FALSE, e, [kind |-> "ok", code |-> 200, content |-> <<"y">>])
    \/ /\ steps < MaxSteps
       /\ \E q \in CacheQueries, uc \in BOOLEAN, e \in QueryEmbeddings :
             StreamBegin(q, uc, FALSE, FALSE, e, [kind |-> "ok", code |-> 200, content |-> <<"y">>])
    \/ StreamNext
    \/ StreamStop

SpecCacheUse == InitRAG /\ [][NextCacheUse]_vars

\* C14: a step that is not a clear_cache call (a lookup, a cache_response, a
\* cache_context_chunk, an answer call or a step of a stream) removes no cached
\* response row and changes no row's query, context, response or tokens_saved;
\* every lookup that was a hit before the step is a hit after it, with the same
\* response and tokens_saved.
C14_RowsStayUntilCleared ==
    [][ ~( steps' = steps + 1 /\ now' = now /\ last_op'.op = "clear" )
        => /\ Len(cached_prompts') >= Len(cached_prompts)
           /\ \A i \in 1..Len(cached_prompts) :
                 /\ cached_prompts'[i].query = cached_prompts[i].query
                 /\ cached_prompts'[i].context = cached_prompts[i].context
                 /\ cached_prompts'[i].response = cached_prompts[i].response
                 /\ cached_prompts'[i].tokens_saved = cached_prompts[i].tokens_saved
           /\ \A q \in CacheQueries, c \in CacheContexts :
                 LET before == get_cached_response_result(cached_prompts, q, c)
                     after == get_cached_response_result(cached_prompts', q, c)
                 IN before.cached => /\ after.cached
                                     /\ after.response = before.response
                                     /\ after.tokens_saved = before.tokens_saved ]_vars

\* a row written by an answer call was hit by a direct lookup after a second row
\* had been cached
C14_Witness ==
    /\ last.outcome = "fresh"
    /\ Len(cached_prompts) = 2
    /\ cached_prompts[1].query = last.question
    /\ cached_prompts[1].response = last.response
    /\ cached_prompts[1].access_count = 2
    /\ last_op.op = "get"
    /\ last_op.result.cached
    /\ last_op.result.response = last.response

-----------------------------------------------------------------------------
(* Properties of single store calls.                                       *)

\* C15: a get_cached_response call that finds a row for the query (and for the
\* context, when one is given) returns that row's response and tokens_saved,
\* adds exactly 1 to the row's access_count, sets its last_accessed to the time
\* of the call and changes nothing else in the table; a call that finds no row
\* returns None and leaves the table as it was.
C15_LookupTouchesOnlyItsRow ==
    [][ ( steps' = steps + 1 /\ now' = now /\ last_op'.op = "get" )
        => LET hit == {i \in 1..Len(cached_prompts) :
                         /\ cached_prompts[i].query = last_op'.query
                         /\ \/ last_op'.context = <<>>
                            \/ cached_prompts[i].context = last_op'.context}
           IN IF hit # {}
              THEN \E i \in hit :
                      /\ last_op'.result.cached
                      /\ last_op'.result.response = cached_prompts[i].response
                      /\ last_op'.result.tokens_saved = cached_prompts[i].tokens_saved
                      /\ Len(cached_prompts') = Len(cached_prompts)
                      /\ cached_prompts'[i] =
                            [cached_prompts[i] EXCEPT !.access_count = @ + 1,
                                                      !.last_accessed = now]
                      /\ \A j \in 1..Len(cached_prompts) :
                            j # i => cached_prompts'[j] = cached_prompts[j]
              ELSE /\ last_op'.result = [cached |-> FALSE]
                   /\ cached_prompts' = cached_prompts ]_vars

\* a lookup hit one of two rows, later than the row was written
C15_Witness ==
    /\ last_op.op = "get" /\ last_op.result.cached
    /\ Len(cached_prompts) = 2
    /\ \E i \in 1..2 :
          /\ cached_prompts[i].query = last_op.query
          /\ cached_prompts[i].access_count = 2
          /\ cached_prompts[i].last_accessed > cached_prompts[i].created_at
          /\ cached_prompts[i].response = last_op.result.response
          /\ cached_prompts[3 - i].access_count = 1
          /\ cached_prompts[3 - i].last_accessed = cached_prompts[3 - i].created_at

-----------------------------------------------------------------------------
(* The context memory store driven directly through its public methods.    *)

MaxMemorySteps == 4
MemoryQueries == {<<"a">>, <<"b">>}
MemoryContexts == {<<"c">>, <<"d">>}
\* what a caller stores with a key: response, tags and confidence (in hundredths)
MemoryPayloads ==
    {[response |-> <<"x">>, tags |-> <<>>, confidence_score |-> 50],
     [response |-> <<"y">>, tags |-> <<"design">>, confidence_score |-> 85]}
Limits == {1, 3}
ConfidenceFloors == {0, 60}
CleanupDays == {0, 1}

\* an entry that was stored `n` times before the run starts
RECURSIVE StoredTimes(_)
StoredTimes(n) ==
    IF n = 0 THEN <<>>
    ELSE store_context_rows(StoredTimes(n - 1), 0, <<"b">>, <<"d">>, <<"x">>, None, <<>>,
                            50, ChatModel, 0)

\* the memory a run may start with: none, or one entry just below or at the
\* low-usage threshold
StartingMemories == {StoredTimes(n) : n \in {0, LowUsageThreshold - 1, LowUsageThreshold}}

InitMemory ==
    /\ cached_prompts = <<>>
    /\ context_chunks = <<>>
    /\ now = 0
    /\ steps = 0
    /\ last_op = NoOp
    /\ first_put = {}
    /\ sessions = NoSessions
    /\ conversation_threads = <<>>
    /\ adders = NoAdders
    /\ message_history = <<>>
    /\ chunking = NoChunking
    /\ context_memory \in StartingMemories
    /\ memory_seq = Len(context_memory)
    /\ store = <<>>
    /\ last = NoCall
    /\ stream = IdleStream
    /\ NoIndex

\* everything but the memory table, the clock and the call record stays as it is
MemoryFrame ==
    UNCHANGED <<cached_prompts, context_chunks, first_put, sessions, chunking, conversation_threads, adders, message_history, ragVars, diskVars>>

StoreContext(query, context, payload) ==
    /\ steps < MaxMemorySteps
    /\ steps' = steps + 1
    /\ context_memory' = store_context_rows(context_memory, memory_seq, query, context,
                                            payload.response, None, payload.tags,
                                            payload.confidence_score, ChatModel, now)
    /\ memory_seq' = store_context_seq(context_memory, memory_seq, query, context)
    /\ last_op' = [op |-> "store", query |-> query, context |-> context,
                   payload |-> payload,
                   result |-> store_context_id(context_memory, memory_seq, query, context)]
    /\ UNCHANGED now
    /\ MemoryFrame

RetrieveSimilarContexts(query, limit, min_confidence) ==
    /\ steps < MaxMemorySteps
    /\ steps' = steps + 1
    /\ \E result \in retrieve_similar_contexts(context_memory, query, limit, min_confidence) :
          last_op' = [op |-> "retrieve", query |-> query, limit |-> limit,
                      min_confidence |-> min_confidence, result |-> result]
    /\ context_memory' = retrieve_similar_contexts_rows(context_memory, query, limit,
                                                        min_confidence, now)
    /\ UNCHANGED <<now, memory_seq>>
    /\ MemoryFrame

CleanupOldContexts(days) ==
    /\ steps < MaxMemorySteps
    /\ steps' = steps + 1
    /\ \E utc_offset \in UtcOffsets :
          /\ context_memory' = cleanup_old_contexts_rows(context_memory, days,
                                                         now + utc_offset)
          /\ last_op' = [op |-> "cleanup", days |-> days, utc_offset |-> utc_offset,
                         result |-> cleanup_old_contexts_deleted(context_memory, days,
                                                                 now + utc_offset)]
    /\ UNCHANGED <<now, memory_seq>>
    /\ MemoryFrame

NextMemory ==
    \/ Tick
    \/ \E q \in MemoryQueries, c \in MemoryContexts, v \in MemoryPayloads : StoreContext(q, c, v)
    \/ \E q \in MemoryQueries, l \in Limits, f \in ConfidenceFloors :
          RetrieveSimilarContexts(q, l, f)
    \/ \E d \in CleanupDays : CleanupOldContexts(d)

SpecMemory == InitMemory /\ [][NextMemory]_vars

-----------------------------------------------------------------------------
(* Properties of the context memory store.  A step that raises `steps` is  *)
(* a call; last_op holds its arguments and its result.                     *)

\* C16: the memory never holds two entries with the same (query_hash,
\* context_hash).  A store_context of a key without an entry appends one entry
\* with access_count 1 and the caller's response, tags and confidence, and
\* returns its new id; a store_context of a key with an entry adds 1 to that
\* entry's access_count, sets its last_accessed to the time of the call, changes
\* nothing else, adds no entry, and returns that entry's id.  No other entry
\* changes.
C16_StoreContextInsertsOrCounts ==
    [][ /\ \A i \in 1..Len(context_memory'), j \in 1..Len(context_memory') :
              ( /\ context_memory'[i].query_hash = context_memory'[j].query_hash
                /\ context_memory'[i].context_hash = context_memory'[j].context_hash )
              => i = j
        /\ ( steps' = steps + 1 /\ last_op'.op = "store" )
           => LET old == {i \in 1..Len(context_memory) :
                             /\ context_memory[i].query = last_op'.query
                             /\ context_memory[i].context = last_op'.context}
              IN /\ \A j \in (1..Len(context_memory)) \ old :
                       context_memory'[j] = context_memory[j]
                 /\ IF old = {}
                    THEN /\ Len(context_memory') = Len(context_memory) + 1
                         /\ LET new == context_memory'[Len(context_memory')]
                            IN /\ new.query = last_op'.query
                               /\ new.context = last_op'.context
                               /\ new.access_count = 1
                               /\ new.response = last_op'.payload.response
                               /\ new.tags = last_op'.payload.tags
                               /\ new.confidence_score = last_op'.payload.confidence_score
                               /\ new.created_at = now
                               /\ new.last_accessed = now
                               /\ last_op'.result = new.id
                               /\ \A j \in 1..Len(context_memory) :
                                     context_memory[j].id # new.id
                    ELSE /\ Len(context_memory') = Len(context_memory)
                         /\ \A i \in old :
                               /\ context_memory'[i] =
                                     [context_memory[i] EXCEPT !.access_count = @ + 1,
                                                               !.last_accessed = now]
                               /\ last_op'.result = context_memory[i].id ]_vars

\* the third store of a key, later than the first and with another response,
\* tags and confidence, next to an entry of another key
C16_Witness ==
    /\ last_op.op = "store"
    /\ Len(context_memory) >= 2
    /\ \E i \in 1..Len(context_memory) :
          /\ context_memory[i].query = last_op.query
          /\ context_memory[i].context = last_op.context
          /\ context_memory[i].access_count = 3
          /\ context_memory[i].last_accessed > context_memory[i].created_at
          /\ context_memory[i].response # last_op.payload.response
          /\ context_memory[i].tags # last_op.payload.tags
          /\ context_memory[i].confidence_score # last_op.payload.confidence_score
          /\ last_op.result = context_memory[i].id

-----------------------------------------------------------------------------
(* Properties of the memory write-back of the answer calls.  A call ends   *)
(* in the step that raises `steps` (non-streaming) or that sets last.done  *)
(* (streaming, read to its end).                                           *)

\* C17: when a call with store_memory=true ends served fresh, the memory holds
\* exactly one entry for (question, assembled context); if the call created it,
\* the entry holds the returned response, confidence 0.85 when at least one chunk
\* was retrieved and 0.5 otherwise, and at most three tags.  A call that ends
\* served from the cache, served from memory or in a provider failure leaves the
\* memory as it was.
C17_FreshAnswersAreRemembered ==
    [][ ( /\ last'.done /\ ~last'.stopped
          /\ (steps' = steps + 1 \/ ~last.done) )
        => /\ ( last'.outcome = "fresh" /\ ~last'.provider_failed /\ last'.store_memory )
              => LET entries == {i \in 1..Len(context_memory') :
                                    /\ context_memory'[i].query = last'.question
                                    /\ context_memory'[i].context = last'.context}
                 IN /\ Cardinality(entries) = 1
                    /\ \A i \in entries :
                          i > Len(context_memory)
                          => /\ context_memory'[i].response = last'.emitted
                             /\ context_memory'[i].confidence_score =
                                   (IF last'.contexts_retrieved > 0 THEN 85 ELSE 50)
                             /\ context_memory'[i].confidence_score \in 0..100
                             /\ Len(context_memory'[i].tags) <= 3
           /\ ( \/ last'.outcome \in {"cache", "memory", "error"}
                \/ last'.provider_failed )
              => /\ context_memory' = context_memory
                 /\ memory_seq' = memory_seq ]_vars

\* C18: when the memory holds an entry with the query's exact text and a
\* confidence_score of at least min_confidence, retrieve_similar_contexts returns
\* entries of that query only: the min(limit, number of them) that rank first by
\* access_count descending, then confidence_score descending, in that order.
C18_ExactMatchesRankedByUse ==
    [][ ( steps' = steps + 1 /\ last_op'.op = "retrieve" )
        => LET exact == {i \in 1..Len(context_memory) :
                           /\ context_memory[i].query = last_op'.query
                           /\ context_memory[i].confidence_score >= last_op'.min_confidence}
               result == last_op'.result
               returned == {i \in exact : \E k \in 1..Len(result) : result[k] = context_memory[i]}
           IN exact # {}
              => /\ Len(result) <= last_op'.limit
                 /\ Len(result) = (IF Cardinality(exact) < last_op'.limit
                                   THEN Cardinality(exact) ELSE last_op'.limit)
                 /\ Cardinality(returned) = Len(result)
                 /\ \A k \in 1..Len(result) :
                       /\ result[k].query = last_op'.query
                       /\ result[k].confidence_score >= last_op'.min_confidence
                 /\ \A k \in 1..(Len(result) - 1) :
                       \/ result[k].access_count > result[k + 1].access_count
                       \/ /\ result[k].access_count = result[k + 1].access_count
                          /\ result[k].confidence_score >= result[k + 1].confidence_score
                 /\ \A i \in exact \ returned, k \in 1..Len(result) :
                       \/ result[k].access_count > context_memory[i].access_count
                       \/ /\ result[k].access_count = context_memory[i].access_count
                          /\ result[k].confidence_score
                                >= context_memory[i].confidence_score ]_vars

\* two entries of the query came back, equally often accessed, the later-stored
\* and more confident one first, while the memory also holds a more often
\* accessed entry of another query
C18_Witness ==
    /\ last_op.op = "retrieve"
    /\ Len(last_op.result) = 2
    /\ last_op.result[1].access_count = last_op.result[2].access_count
    /\ last_op.result[1].confidence_score > last_op.result[2].confidence_score
    /\ last_op.result[1].id > last_op.result[2].id
    /\ \E i \in 1..Len(context_memory) :
          /\ context_memory[i].query # last_op.query
          /\ context_memory[i].access_count > last_op.result[1].access_count

C20_CleanupDeletesOldRarelyUsed ==
    [][ ( steps' = steps + 1 /\ last_op'.op = "cleanup" )
        => LET doomed == {i \in 1..Len(context_memory) :
                            /\ context_memory[i].created_at <= now - last_op'.days * DayTicks
                            /\ context_memory[i].access_count < 5}
           IN /\ last_op'.result = Cardinality(doomed)
              /\ context_memory' = KeepRows(context_memory,
                                            (1..Len(context_memory)) \ doomed, 1)
              /\ \A i \in 1..Len(context_memory) :
                    context_memory[i].access_count >= 5
                    => \E j \in 1..Len(context_memory') :
                          context_memory'[j] = context_memory[i] ]_vars

-----------------------------------------------------------------------------
(* optimized_rag.py: the administrative call clear_all_caches, between     *)
(* answer calls, on a store whose memory may hold an entry of earlier use. *)

MaxAdminSteps == 3

InitAdmin ==
    /\ cached_prompts = <<>>
    /\ context_chunks = <<>>
    /\ context_memory \in StartingMemories
    /\ memory_seq = Len(context_memory)
    /\ store = KnowledgeBase
    /\ vs_metadata = KnowledgeMetadata
    /\ folder = KnowledgeFolder
    /\ metadata_file = WrittenFile(KnowledgeMetadata)
    /\ vectors_file = WrittenFile(KnowledgeChunks)
    /\ build = [NoBuild EXCEPT !.n = 1, !.embed_model_id = KnowledgeModel,
                                !.folder = KnowledgeFolder, !.phase = "done",
                                !.embed_calls = 1, !.returned = KnowledgeChunks]
    /\ reader = NoReader
    /\ built = {[files |-> KnowledgeMetadata.files, model_id |-> KnowledgeModel,
                 chunks |-> KnowledgeChunks]}
    /\ now = 0
    /\ steps = 0
    /\ last = NoCall
    /\ stream = IdleStream
    /\ last_op = NoOp
    /\ first_put = {}
    /\ sessions = NoSessions
    /\ conversation_threads = <<>>
    /\ adders = NoAdders
    /\ message_history = <<>>
    /\ chunking = NoChunking

\* OptimizedRAG.clear_all_caches: VectorStoreManager.clear_cache(),
\* PromptCache.clear_cache() and ContextMemoryStore.cleanup_old_contexts(days=0)
ClearAllCaches ==
    /\ ~stream.active
    /\ steps < MaxAdminSteps
    /\ steps' = steps + 1
    /\ vectors_file' = MissingFile
    /\ metadata_file' = MissingFile
    /\ store' = <<>>
    /\ vs_metadata' = NoMetadata
    /\ \E utc_offset \in UtcOffsets :
          /\ cached_prompts' = clear_cache_prompts(cached_prompts, 0, now + utc_offset)
          /\ context_memory' = cleanup_old_contexts_rows(context_memory, 0, now + utc_offset)
          /\ last_op' = [op |-> "clear_all", step |-> steps + 1, utc_offset |-> utc_offset]
    /\ context_chunks' = clear_cache_chunks(context_chunks, 0)
    /\ first_put' = {}
    /\ UNCHANGED <<now, memory_seq, sessions, chunking, conversation_threads, adders, message_history, last, stream, folder, build, reader, built>>

\* the provider answers
AdminOutcome == [kind |-> "ok", code |-> 200, content |-> <<"y">>]

NextAdmin ==
    \/ /\ steps < MaxAdminSteps
       /\ \E q \in CacheQueries, uc \in BOOLEAN, sm \in BOOLEAN, rp \in BOOLEAN :
             Answer(q, uc, sm, rp, <<1, 0>>, AdminOutcome)
    \/ /\ steps < MaxAdminSteps
       /\ \E q \in CacheQueries, uc \in BOOLEAN, sm \in BOOLEAN, rp \in BOOLEAN :
             StreamBegin(q, uc, sm, rp, <<1, 0>>, AdminOutcome)
    \/ StreamNext
    \/ StreamStop
    \/ ClearAllCaches

SpecAdmin == InitAdmin /\ [][NextAdmin]_vars

\* C21: when clear_all_caches() returns, the vector index, the cached responses,
\* the cached context fragments and the context memory are all empty, and the
\* answer call that follows it is served neither from the cache nor from memory:
\* it retrieves and calls the model.
C21_ClearAllCachesEmptiesEverything ==
    [][ /\ ( steps' = steps + 1 /\ last_op'.op = "clear_all" /\ last_op'.step = steps' )
           => /\ store' = <<>>
              /\ vectors_file' = MissingFile
              /\ cached_prompts' = <<>>
              /\ context_chunks' = <<>>
              /\ context_memory' = <<>>
        /\ ( steps' = steps + 1 /\ last_op.op = "clear_all" /\ last_op.step = steps
             /\ last_op' = last_op )
           => /\ last'.outcome \notin {"cache", "memory"}
              /\ ~last'.cache_hit
              /\ last'.embed_calls = 1
              /\ last'.model_calls = 1 ]_vars

-----------------------------------------------------------------------------
(* VectorStoreManager.semantic_search on an index of up to MaxChunks       *)
(* chunks, whose embeddings the Embedding Provider chose.                  *)

MaxChunks == 3
MaxSearches == 2
ChunkEmbeddings == {<<1, 0>>, <<0, 1>>, <<1, 1>>, <<-1, 0>>, <<0, 0>>}
SearchEmbeddings == {<<1, 0>>, <<1, 1>>}
TopKs == {1, 2, 4}

\* the index build_from_folder leaves for a document of Len(embeddings) chunks
IndexOf(embeddings) ==
    [i \in 1..Len(embeddings) |->
        [filename |-> chunk_name(FileA, i - 1), source |-> FileA, content |-> <<"d">>,
         embedding |-> embeddings[i], timestamp |-> 0]]

SearchIndexes ==
    UNION {{IndexOf(v) : v \in [1..n -> ChunkEmbeddings]} : n \in 0..MaxChunks}

InitSearch ==
    /\ cached_prompts = <<>>
    /\ context_chunks = <<>>
    /\ now = 0
    /\ steps = 0
    /\ last_op = NoOp
    /\ first_put = {}
    /\ sessions = NoSessions
    /\ conversation_threads = <<>>
    /\ adders = NoAdders
    /\ message_history = <<>>
    /\ chunking = NoChunking
    /\ context_memory = <<>>
    /\ memory_seq = 0
    /\ store \in SearchIndexes
    /\ last = NoCall
    /\ stream = IdleStream
    /\ NoIndex

\* VectorStoreManager.semantic_search(query_text, embed_model_id, top_k): the
\* Embedding Provider answers with `vector`, or the embedding call fails
SemanticSearch(vector, answered, top_k) ==
    /\ steps < MaxSearches
    /\ steps' = steps + 1
    /\ LET query_embedding == IF answered THEN vector ELSE <<>>
       IN last_op' = [op |-> "search", top_k |-> top_k, query_embedding |-> query_embedding,
                      result |-> semantic_search(store, query_embedding, top_k),
                      searched |-> store, before |-> last_op]
    /\ UNCHANGED <<cached_prompts, context_chunks, now, first_put, sessions, chunking, conversation_threads, adders, message_history, memVars,
                   ragVars, diskVars>>

NextSearch ==
    \E vector \in SearchEmbeddings, answered \in BOOLEAN, top_k \in TopKs :
        SemanticSearch(vector, answered, top_k)

SpecSearch == InitSearch /\ [][NextSearch]_vars

\* the position in the index of the chunk a search result names
PositionOf(index, result) == CHOOSE i \in 1..Len(index) : index[i].filename = result.filename

\* chunk i of the index ranks before chunk j for the query: its similarity is
\* greater, or equal with i inserted first
RanksBefore(index, query_embedding, i, j) ==
    LET a == cosine_similarity(query_embedding, index[i].embedding)
        b == cosine_similarity(query_embedding, index[j].embedding)
    IN ScoreGreater(a, b) \/ (~ScoreGreater(b, a) /\ i < j)

\* C22: a search whose query was embedded returns min(top_k, number of indexed
\* chunks) results, each the (filename, similarity, content) of a chunk of the
\* index, in descending order of similarity with chunks of equal similarity in
\* index order, no chunk left out ranking before a returned one; the index is
\* as it was.
C22_SearchReturnsTopKInOrder ==
    ( last_op.op = "search" /\ last_op.query_embedding # <<>> )
    => LET result == last_op.result
           index == last_op.searched
           n == IF last_op.top_k < Len(index) THEN last_op.top_k ELSE Len(index)
       IN /\ Len(result) = n
          /\ store = index
          /\ \A k \in 1..n :
                /\ \E i \in 1..Len(index) : index[i].filename = result[k].filename
                /\ result[k].content = index[PositionOf(index, result[k])].content
                /\ result[k].score =
                      cosine_similarity(last_op.query_embedding,
                                        index[PositionOf(index, result[k])].embedding)
          /\ \A k \in 1..n, m \in 1..n :
                k < m => RanksBefore(index, last_op.query_embedding,
                                     PositionOf(index, result[k]), PositionOf(index, result[m]))
          /\ \A k \in 1..n, i \in 1..Len(index) :
                (\A m \in 1..n : PositionOf(index, result[m]) # i)
                => RanksBefore(index, last_op.query_embedding,
                               PositionOf(index, result[k]), i)

\* a search for two of three chunks that passes over the first chunk and returns
\* two chunks of equal similarity, and another that returns a later chunk first
C22_Witness ==
    /\ last_op.op = "search"
    /\ last_op.query_embedding # <<>>
    /\ Len(last_op.searched) = 3
    /\ Len(last_op.result) = 2
    /\ last_op.result[1].score = last_op.result[2].score
    /\ PositionOf(last_op.searched, last_op.result[1]) = 2
    /\ PositionOf(last_op.searched, last_op.result[2]) = 3
    /\ last_op.before.op = "search"
    /\ last_op.before.query_embedding # <<>>
    /\ Len(last_op.before.result) = 1
    /\ PositionOf(last_op.searched, last_op.before.result[1]) = 3

\* C23: a search whose query embedding call failed returns no result and leaves
\* the index as it was; the search after it, its embedding call answered, finds
\* the same index and returns min(top_k, number of chunks) results from it.
C23_FailedEmbeddingGivesNoResult ==
    /\ ( last_op.op = "search" /\ last_op.query_embedding = <<>> )
       => /\ last_op.result = <<>>
          /\ store = last_op.searched
    /\ ( last_op.op = "search" /\ last_op.query_embedding # <<>>
         /\ last_op.before.op = "search" /\ last_op.before.query_embedding = <<>> )
       => /\ last_op.searched = last_op.before.searched
          /\ Len(last_op.result) = ( IF last_op.top_k < Len(last_op.searched)
                                     THEN last_op.top_k ELSE Len(last_op.searched) )
          /\ \A k \in 1..Len(last_op.result) :
                \E i \in 1..Len(last_op.before.searched) :
                   /\ last_op.before.searched[i].filename = last_op.result[k].filename
                   /\ last_op.before.searched[i].content = last_op.result[k].content

\* a failed search of an index of three chunks, then a search that returns two
C23_Witness ==
    /\ last_op.op = "search"
    /\ last_op.query_embedding # <<>>
    /\ Len(last_op.result) = 2
    /\ last_op.before.op = "search"
    /\ last_op.before.query_embedding = <<>>
    /\ Len(last_op.before.searched) = 3
    /\ last_op.before.result = <<>>

-----------------------------------------------------------------------------
(* Properties of a rebuild: build.order is the order in which os.listdir    *)
(* gave the files and build.failed the chunks whose embedding call failed.  *)

\* the place of a file in the order the build read the folder in
PlaceOf(order, filename) == CHOOSE i \in 1..Len(order) : order[i] = filename

\* C24: a rebuild leaves out exactly the chunks whose embedding call failed: the
\* new store holds every other chunk of every document, documents in the order
\* they were read and the chunks of a document by offset; the build completes,
\* returns this store and has written it to the vectors file.
C24_FailedChunkIsSkipped ==
    [][ ( build'.n = build.n + 1 /\ ~build'.cache_hit )
        => LET documents == load_documents_from_folder(folder, build'.order)
               every == BuildStore(documents, build'.embed_model_id, {}, now')
               kept == SelectSeq(every, LAMBDA e : e.filename \notin build'.failed)
           IN /\ build'.phase = "done"
              /\ store' = kept
              /\ build'.returned = kept
              /\ vectors_file' = WrittenFile(kept)
              /\ {store'[i].filename : i \in 1..Len(store')}
                    = ChunkNames(documents) \ build'.failed
              /\ \A i \in 1..Len(store'), j \in 1..Len(store') :
                    i < j => PlaceOf(build'.order, store'[i].source)
                                <= PlaceOf(build'.order, store'[j].source) ]_vars

\* a rebuild of a folder of two documents during which the first chunk of the
\* two-chunk document failed: its second chunk and the other document are there
C24_Witness ==
    /\ build.phase = "done"
    /\ ~build.cache_hit
    /\ build.failed = {chunk_name(FileA, 0)}
    /\ folder[FileA] = File(LongText)
    /\ folder[FileB] = File(ShortText)
    /\ \E i \in 1..Len(store) : store[i].filename = chunk_name(FileA, 1)
    /\ \E i \in 1..Len(store) : store[i].source = FileB
    /\ vectors_file = WrittenFile(store)
    /\ Len(store) = 2

\* C25: a build that finds the persisted index unreadable (a vectors file or a
\* metadata file that cannot be loaded) takes it for no cache: it is no cache
\* hit, it embeds every chunk of the corpus again and does not return the empty
\* list that loading the unreadable file gives.
C25_UnreadableIndexIsRebuilt ==
    [][ ( /\ build'.n = build.n + 1
          /\ \/ vectors_file.exists /\ ~vectors_file.complete
             \/ metadata_file.exists /\ ~metadata_file.complete )
        => /\ ~build'.cache_hit
           /\ build'.embed_calls =
                 Cardinality(ChunkNames(load_documents_from_folder(folder, build'.order))) ]_vars

-----------------------------------------------------------------------------
(* Answer calls on database files that SQLite cannot read.  sqlite3.connect *)
(* succeeds on such a file and the first statement raises                   *)
(* sqlite3.DatabaseError; cached_prompts and context_chunks are tables of   *)
(* one file, prompts.db, and context_memory is a table of contexts.db.      *)

MaxDamagedCalls == 2

\* the content of a database file that is not a database
UnreadableDatabase == <<[unreadable |-> TRUE]>>
Unreadable(rows) == rows = UnreadableDatabase

\* prompts.db is overwritten or cut short from outside the program
DamagePromptCache ==
    /\ ~stream.active
    /\ ~Unreadable(cached_prompts)
    /\ cached_prompts' = UnreadableDatabase
    /\ context_chunks' = UnreadableDatabase
    /\ UNCHANGED <<now, steps, last_op, first_put, sessions, chunking, conversation_threads, adders, message_history, memVars, ragVars, diskVars>>

\* contexts.db is overwritten or cut short from outside the program
DamageMemory ==
    /\ ~stream.active
    /\ ~Unreadable(context_memory)
    /\ context_memory' = UnreadableDatabase
    /\ UNCHANGED <<cached_prompts, context_chunks, now, steps, last_op, first_put, sessions, chunking, conversation_threads, adders, message_history,
                   memory_seq, ragVars, diskVars>>

\* OptimizedRAG.answer_with_optimization while a database file is unreadable:
\* get_cached_response, retrieve_similar_contexts and cache_context_chunk let the
\* DatabaseError through, cache_response and store_context catch it.
AnswerOnUnreadableStore(user_question, use_cache, store_memory, retrieve_past_contexts, query_embedding, outcome) ==
    /\ ~stream.active
    /\ Unreadable(cached_prompts) \/ Unreadable(context_memory)
    /\ steps' = steps + 1
    /\ now' = now + 1
    /\ UNCHANGED <<store, stream, last_op, first_put, sessions, chunking, conversation_threads, adders, diskVars>>
    /\ LET call == NewCall(user_question, use_cache, store_memory, retrieve_past_contexts, FALSE)
           raised == [call EXCEPT !.outcome = "raised", !.error = TRUE]
           retrieved_results == semantic_search(store, query_embedding, 3)
           response == _invoke_model_with_context(outcome)
       IN IF use_cache /\ Unreadable(cached_prompts)
          THEN /\ last' = raised
               /\ UNCHANGED <<cached_prompts, context_chunks, memVars, message_history>>
          ELSE IF use_cache /\ get_cached_response_result(cached_prompts, user_question, None).cached
          THEN /\ cached_prompts' = get_cached_response_rows(cached_prompts, user_question,
                                                             None, now + 1)
               /\ last' = [call EXCEPT
                             !.outcome = "cache", !.cache_hit = TRUE,
                             !.response = get_cached_response_result(
                                              cached_prompts, user_question, None).response,
                             !.emitted = get_cached_response_result(
                                             cached_prompts, user_question, None).response,
                             !.tokens_saved = get_cached_response_result(
                                                  cached_prompts, user_question, None).tokens_saved]
               /\ UNCHANGED <<context_chunks, memVars, message_history>>
          ELSE IF retrieve_past_contexts /\ Unreadable(context_memory)
          THEN /\ last' = [raised EXCEPT !.memory_reads = 1]
               /\ UNCHANGED <<cached_prompts, context_chunks, memVars, message_history>>
          ELSE \E past_contexts \in PastContexts(retrieve_past_contexts, user_question) :
               LET k == FirstExactMatch(past_contexts, user_question)
                   context == combined_context(past_contexts, retrieved_results)
                   call2 == [call EXCEPT !.memory_reads = IF retrieve_past_contexts THEN 1 ELSE 0,
                                         !.memory_reused = past_contexts # <<>>,
                                         !.past = PastSummary(past_contexts)]
                   call3 == [call2 EXCEPT !.embed_calls = 1,
                                          !.contexts_retrieved = Len(retrieved_results), !.retrieved = retrieved_results,
                                          !.context = context]
                   call4 == [call3 EXCEPT !.model_calls = 1, !.provider = outcome.kind,
                                          !.provider_failed = ProviderFailed(outcome)]
               IN IF k # 0
                  THEN /\ last' = [call2 EXCEPT !.outcome = "memory",
                                                !.response = past_contexts[k].response,
                                                !.emitted = past_contexts[k].response]
                       /\ UNCHANGED <<cached_prompts, context_chunks, memVars, message_history>>
                  ELSE IF Unreadable(cached_prompts) /\ retrieved_results # <<>>
                  THEN /\ last' = [call3 EXCEPT !.outcome = "raised", !.error = TRUE]
                       /\ UNCHANGED <<cached_prompts, context_chunks, memVars, message_history>>
                  ELSE /\ message_history' = _invoke_model_with_context_history(message_history, outcome)
                       /\ context_chunks' =
                             IF Unreadable(cached_prompts) THEN context_chunks
                             ELSE CacheRetrievedChunks(context_chunks, retrieved_results, now + 1)
                       /\ IF response.none
                          THEN /\ last' = [call4 EXCEPT !.outcome = "error", !.error = TRUE,
                                                        !.response = ErrorGeneratingResponse,
                                                        !.emitted = ErrorGeneratingResponse]
                               /\ UNCHANGED <<cached_prompts, memVars>>
                          ELSE /\ cached_prompts' =
                                     IF Unreadable(cached_prompts) THEN cached_prompts
                                     ELSE WriteBackCache(cached_prompts, use_cache, user_question,
                                                         context, response.text, ChatModel, now + 1)
                               /\ context_memory' =
                                     IF Unreadable(context_memory) THEN context_memory
                                     ELSE WriteBackMemory(context_memory, memory_seq, store_memory,
                                                          user_question, context, response.text,
                                                          "optimized_rag", Len(retrieved_results),
                                                          Len(past_contexts), ChatModel, now + 1)
                               /\ memory_seq' =
                                     IF Unreadable(context_memory) THEN memory_seq
                                     ELSE WriteBackMemorySeq(context_memory, memory_seq,
                                                             store_memory, user_question, context)
                               /\ last' = [call4 EXCEPT
                                             !.outcome = "fresh",
                                             !.response = response.text,
                                             !.emitted = response.text,
                                             !.tokens_saved =
                                                 IF use_cache
                                                 THEN estimated_tokens_saved(context)
                                                 ELSE 0]

NextDamaged ==
    \/ /\ steps < MaxDamagedCalls
       /\ ~Unreadable(cached_prompts)
       /\ ~Unreadable(context_memory)
       /\ \E q \in ServeQuestions, uc \in BOOLEAN, sm \in BOOLEAN, rp \in BOOLEAN,
             e \in QueryEmbeddings, o \in ServeOutcomes :
             Answer(q, uc, sm, rp, e, o)
    \/ /\ steps < MaxDamagedCalls
       /\ \E q \in ServeQuestions, uc \in BOOLEAN, sm \in BOOLEAN, rp \in BOOLEAN,
             e \in QueryEmbeddings, o \in ServeOutcomes :
             AnswerOnUnreadableStore(q, uc, sm, rp, e, o)
    \/ DamagePromptCache
    \/ DamageMemory

SpecDamaged == InitRAG /\ [][NextDamaged]_vars

\* C26: an answer call that finds the prompt-cache or the context-memory
\* database unreadable takes that store for empty and goes on: no error reaches
\* the caller, nothing is served from the unreadable store, and unless the other
\* store serves the question the call retrieves and calls the model.
C26_UnreadableStoreIsTreatedAsEmpty ==
    [][ ( /\ steps' = steps + 1
          /\ Unreadable(cached_prompts) \/ Unreadable(context_memory) )
        => /\ last'.outcome # "raised"
           /\ Unreadable(cached_prompts) => ~last'.cache_hit
           /\ Unreadable(context_memory) => last'.outcome # "memory"
           /\ last'.outcome \in {"fresh", "error"} => last'.model_calls = 1 ]_vars

-----------------------------------------------------------------------------
(* Properties of table context_chunks.                                     *)

\* the rows of table context_chunks that hold `content`
ChunkRows(rows, content) == {i \in 1..Len(rows) : rows[i].chunk_content = content}

\* C27: context_chunks holds at most one row per content.  cache_context_chunk
\* creates the row of a new content with reuse_count 1 and adds exactly 1 to the
\* reuse_count of a content it already holds, and touches no other row and no
\* cached response; only a full clear_cache empties the table and no other call
\* changes it, so reuse_count is the number of times the content was cached
\* since the last full clear.
C27_ReuseCountCountsStores ==
    [][ /\ \A i \in 1..Len(context_chunks'), j \in 1..Len(context_chunks') :
              context_chunks'[i].chunk_hash = context_chunks'[j].chunk_hash => i = j
        /\ ( steps' = steps + 1 /\ last_op'.op = "chunk" )
           => LET content == last_op'.content
                  old == ChunkRows(context_chunks, content)
              IN /\ cached_prompts' = cached_prompts
                 /\ Cardinality(ChunkRows(context_chunks', content)) = 1
                 /\ \A i \in ChunkRows(context_chunks', content) :
                       context_chunks'[i].reuse_count =
                          IF old = {} THEN 1
                          ELSE context_chunks[CHOOSE k \in old : TRUE].reuse_count + 1
                 /\ Len(context_chunks') = Len(context_chunks) + (IF old = {} THEN 1 ELSE 0)
                 /\ \A i \in 1..Len(context_chunks) :
                       i \notin old => context_chunks'[i] = context_chunks[i]
        /\ ( steps' = steps + 1 /\ last_op'.op = "clear" )
           => context_chunks' = IF last_op'.older_than_days = 0 THEN <<>> ELSE context_chunks
        /\ ( steps' = steps + 1 /\ last_op'.op \in {"put", "get"} )
           => context_chunks' = context_chunks ]_vars

\* a content cached twice next to another content and a cached response
C27_Witness ==
    /\ last_op.op = "chunk"
    /\ cached_prompts # <<>>
    /\ \E i \in 1..Len(context_chunks) :
          context_chunks[i].chunk_content = last_op.content /\ context_chunks[i].reuse_count = 2

-----------------------------------------------------------------------------
(* context_memory.py: table conversation_threads.                          *)

\* json.dumps of a list of integers
json_dumps(context_ids) ==
    <<"[">> \o Join([i \in 1..Len(context_ids) |-> Digits(context_ids[i])], <<",", " ">>)
            \o <<"]">>

DigitValue(char) == CHOOSE d \in 0..9 : DigitChars[d + 1] = char

\* int(chars) for a run of decimal digits
RECURSIVE Number(_)
Number(chars) ==
    IF chars = <<>> THEN 0
    ELSE 10 * Number(SubSeq(chars, 1, Len(chars) - 1)) + DigitValue(chars[Len(chars)])

RECURSIVE json_loads_from(_, _, _, _)
json_loads_from(text, i, context_ids, number) ==
    IF i > Len(text) THEN context_ids
    ELSE IF \E d \in 1..10 : DigitChars[d] = text[i]
         THEN json_loads_from(text, i + 1, context_ids, Append(number, text[i]))
         ELSE json_loads_from(text, i + 1,
                              IF number = <<>> THEN context_ids
                              ELSE Append(context_ids, Number(number)),
                              <<>>)

\* json.loads of the text of a list of integers
json_loads(text) == json_loads_from(text, 1, <<>>, <<>>)

\* the rows of a thread id (thread_id is UNIQUE: at most one)
ThreadRows(rows, thread_id) == {i \in 1..Len(rows) : rows[i].thread_id = thread_id}

\* create_conversation_thread: what it returns (False on the IntegrityError of a
\* thread_id that is already there)
create_conversation_thread_ok(rows, thread_id) == ThreadRows(rows, thread_id) = {}

\* create_conversation_thread: the table afterwards
create_conversation_thread_rows(rows, thread_id, title, ts) ==
    IF create_conversation_thread_ok(rows, thread_id)
    THEN Append(rows, [thread_id |-> thread_id, title |-> title,
                       context_ids |-> <<"[", "]">>,
                       created_at |-> ts, last_updated |-> ts])
    ELSE rows

\* add_to_thread with the membership test left out
add_to_thread_rows_always_append(rows, thread_id, context_id, ts) ==
    [i \in 1..Len(rows) |->
        IF rows[i].thread_id = thread_id
        THEN [rows[i] EXCEPT !.context_ids = json_dumps(Append(json_loads(@), context_id)),
                             !.last_updated = ts]
        ELSE rows[i]]

\* add_to_thread: the table afterwards
add_to_thread_rows(rows, thread_id, context_id, ts) ==
    [i \in 1..Len(rows) |->
        IF rows[i].thread_id = thread_id
        THEN LET context_ids == json_loads(rows[i].context_ids)
             IN IF \A k \in 1..Len(context_ids) : context_ids[k] # context_id
                THEN [rows[i] EXCEPT !.context_ids = json_dumps(Append(context_ids, context_id)),
                                     !.last_updated = ts]
                ELSE rows[i]
        ELSE rows[i]]

\* add_to_thread: what it returns (True also when there is no such thread)
add_to_thread_ok(rows, thread_id, context_id) == TRUE

MaxThreadSteps == 4
ThreadIds == {<<"t">>, <<"u">>}
ThreadTitles == {None, <<"x">>, <<"y">>}
ContextIds == {1, 2, 12}

\* everything but the thread table, the clock and the call record stays as it is
ThreadFrame ==
    UNCHANGED <<cached_prompts, context_chunks, now, first_put, sessions, adders, chunking, message_history, memVars,
                ragVars, diskVars>>

CreateConversationThread(thread_id, title) ==
    /\ steps < MaxThreadSteps
    /\ steps' = steps + 1
    /\ conversation_threads' =
          create_conversation_thread_rows(conversation_threads, thread_id, title, now)
    /\ last_op' = [op |-> "create_thread", thread_id |-> thread_id, title |-> title,
                   result |-> create_conversation_thread_ok(conversation_threads, thread_id)]
    /\ ThreadFrame

AddToThread(thread_id, context_id) ==
    /\ steps < MaxThreadSteps
    /\ steps' = steps + 1
    /\ conversation_threads' =
          add_to_thread_rows(conversation_threads, thread_id, context_id, now)
    /\ last_op' = [op |-> "add_to_thread", thread_id |-> thread_id,
                   context_id |-> context_id,
                   result |-> add_to_thread_ok(conversation_threads, thread_id, context_id)]
    /\ ThreadFrame

NextThreads ==
    \/ \E t \in ThreadIds, title \in ThreadTitles : CreateConversationThread(t, title)
    \/ \E t \in ThreadIds, c \in ContextIds : AddToThread(t, c)

SpecThreads == InitMemory /\ [][NextThreads]_vars

\* the context ids of a thread row, in list order
ContextIdsOf(row) == json_loads(row.context_ids)

\* C28: add_to_thread appends a context id to the thread's list only if the list
\* does not hold it yet, and touches no other thread, so no thread's list ever
\* holds an id twice and ids stay in the order of their first insertion;
\* create_conversation_thread with a thread_id that is already there returns
\* False and leaves the table, the title and list of that thread included, as it was.
C28_ThreadListsKeepFirstInsertionOrder ==
    [][ /\ \A i \in 1..Len(conversation_threads') :
              LET context_ids == ContextIdsOf(conversation_threads'[i])
              IN \A j, k \in 1..Len(context_ids) :
                    context_ids[j] = context_ids[k] => j = k
        /\ (steps' # steps /\ last_op'.op = "add_to_thread") =>
              /\ Len(conversation_threads') = Len(conversation_threads)
              /\ \A i \in 1..Len(conversation_threads) :
                    LET old == conversation_threads[i]
                        new == conversation_threads'[i]
                        held == \E k \in 1..Len(ContextIdsOf(old)) :
                                   ContextIdsOf(old)[k] = last_op'.context_id
                    IN /\ new.thread_id = old.thread_id
                       /\ new.title = old.title
                       /\ ContextIdsOf(new) =
                             IF old.thread_id = last_op'.thread_id /\ ~held
                             THEN Append(ContextIdsOf(old), last_op'.context_id)
                             ELSE ContextIdsOf(old)
        /\ (steps' # steps /\ last_op'.op = "create_thread"
               /\ ThreadRows(conversation_threads, last_op'.thread_id) # {}) =>
              /\ last_op'.result = FALSE
              /\ conversation_threads' = conversation_threads
      ]_vars

\* a second add of the first id of a thread whose list is not in numeric order
C28_Witness ==
    /\ last_op.op = "add_to_thread"
    /\ last_op.context_id = 12
    /\ \E i \in 1..Len(conversation_threads) :
          /\ conversation_threads[i].thread_id = last_op.thread_id
          /\ ContextIdsOf(conversation_threads[i]) = <<12, 1>>
          /\ conversation_threads[i].context_ids =
                <<"[", "1", "2", ",", " ", "1", "]">>

-----------------------------------------------------------------------------
(* The tokens-saved estimate of the write-back.                            *)

\* the number of whitespace-separated words of a text, counted at their last
\* characters
WordsOf(text) ==
    Cardinality({i \in 1..Len(text) :
                    /\ text[i] \notin Whitespace
                    /\ i < Len(text) => text[i + 1] \in Whitespace})

\* C29: every cached response row carries as tokens_saved the number of
\* whitespace-separated words of its assembled context divided by 4, rounded
\* down (0 below four words), and an answer call (a step that is a call and not
\* a direct store call) that is a cache hit reports the tokens_saved of the row
\* of its question, which is that number.
C29_TokensSavedIsWordsOverFour ==
    [][ /\ \A i \in 1..Len(cached_prompts') :
              cached_prompts'[i].tokens_saved = WordsOf(cached_prompts'[i].context) \div 4
        /\ (steps' # steps /\ last_op' = last_op /\ last'.cache_hit) =>
              \E i \in 1..Len(cached_prompts) :
                 /\ cached_prompts[i].query = last'.question
                 /\ last'.tokens_saved = cached_prompts[i].tokens_saved
                 /\ last'.tokens_saved = WordsOf(cached_prompts[i].context) \div 4
      ]_vars

\* a cache hit that reports a positive estimate, next to a row of fewer than
\* four words
C29_Witness ==
    /\ last.cache_hit
    /\ last.tokens_saved > 0
    /\ \E i \in 1..Len(cached_prompts) :
          cached_prompts[i].query = last.question /\ WordsOf(cached_prompts[i].context) >= 4
    /\ \E i \in 1..Len(cached_prompts) :
          /\ WordsOf(cached_prompts[i].context) \in 1..3
          /\ cached_prompts[i].tokens_saved = 0

-----------------------------------------------------------------------------
(* The state a rebuild leaves.                                             *)

\* C30: when a build that was no cache hit has returned, metadata.json and the
\* table in memory hold the digest of every supported file of the folder and the
\* requested model id, the store, vectors.pkl and the returned list hold the same
\* chunks, and the cache is judged valid for this folder and model.
C30_RebuildLeavesAValidCache ==
    [][ ( /\ build'.n = build.n + 1
          /\ build'.phase = "done"
          /\ ~build'.cache_hit )
        => ( /\ metadata_file' = WrittenFile([files |-> current_files(folder'),
                                              model_id |-> build'.embed_model_id])
             /\ vs_metadata' = _load_metadata(metadata_file')
             /\ store' = build'.returned
             /\ vectors_file' = WrittenFile(build'.returned)
             /\ _is_cache_valid(vectors_file', vs_metadata', folder',
                                build'.embed_model_id) ) ]_vars

-----------------------------------------------------------------------------
(* The option flags of the answer calls.                                   *)

\* the start of the label the context assembly puts before a memory entry
MemoryLabel == <<"[", "M", "e", "m", "o", "r", "y">>

\* C31: in every step of an answer call, streamed or not: with use_cache off the
\* cached responses stay as they are (no row written, no access counted) and the
\* call is no cache hit; with retrieve_past_contexts off the memory store is not
\* read, nothing is taken from it and no memory text is in the context; with
\* store_memory off the memory table and its id counter stay as they are.
C31_FlagsIsolateTheStores ==
    [][ /\ ~last'.use_cache =>
              /\ cached_prompts' = cached_prompts
              /\ ~last'.cache_hit
        /\ ~last'.retrieve_past_contexts =>
              /\ last'.memory_reads = 0
              /\ last'.past = <<>>
              /\ ~last'.memory_reused
              /\ ~Contains(last'.context, MemoryLabel)
        /\ ~last'.store_memory =>
              /\ context_memory' = context_memory
              /\ memory_seq' = memory_seq
      ]_vars

\* a call with the three flags off that reached the model although the cache and
\* the memory both hold an entry for its question
C31_Witness ==
    /\ ~last.use_cache /\ ~last.retrieve_past_contexts /\ ~last.store_memory
    /\ last.model_calls = 1
    /\ last.done
    /\ \E i \in 1..Len(cached_prompts) : cached_prompts[i].query = last.question
    /\ \E i \in 1..Len(context_memory) : context_memory[i].query = last.question

-----------------------------------------------------------------------------
(* The caller's message history.                                           *)

MaxHistoryCalls == 2

\* the lists a caller passes: none, or the turns so far with the new user turn
\* (app.py: temp_history = current_history + [{"role": "user", ...}])
Histories ==
    {<<>>,
     <<[role |-> "user", content |-> Some(<<"a">>)]>>,
     <<[role |-> "user", content |-> Some(<<"b">>)],
       [role |-> "assistant", content |-> Some(<<"y">>)],
       [role |-> "user", content |-> Some(<<"a">>)]>>}

\* the caller makes the list it will pass to its next call
PassHistory(history) ==
    /\ ~stream.active
    /\ message_history' = history
    /\ UNCHANGED <<cached_prompts, context_chunks, now, steps, last_op, first_put, sessions, chunking,
                   conversation_threads, adders, memVars, ragVars, diskVars>>

NextHistory ==
    \/ \E h \in Histories : PassHistory(h)
    \/ /\ steps < MaxHistoryCalls
       /\ \E q \in CacheQueries, uc \in BOOLEAN, sm \in BOOLEAN, rp \in BOOLEAN,
             o \in ChatOutcomes :
             Answer(q, uc, sm, rp, <<1, 0>>, o)
    \/ /\ steps < MaxHistoryCalls
       /\ \E q \in CacheQueries, uc \in BOOLEAN, sm \in BOOLEAN, rp \in BOOLEAN,
             o \in StreamOutcomes :
             StreamBegin(q, uc, sm, rp, <<1, 0>>, o)
    \/ StreamNext
    \/ StreamStop

SpecHistory == InitRAG /\ [][NextHistory]_vars

\* C32: no step of an answer call, streamed or not, changes the list the caller
\* passed as message_history, whatever the call's outcome: its length and its
\* turns are after the step what they were before it.
C32_HistoryIsNotMutated ==
    [][ (steps' # steps \/ last' # last \/ stream' # stream) =>
           /\ Len(message_history') = Len(message_history)
           /\ message_history' = message_history ]_vars

-----------------------------------------------------------------------------
(* The fragments an answer call caches.                                    *)

MaxFragmentCalls == 2

\* an index of one document cut into chunks with the given contents
FragmentIndex(contents) ==
    [i \in 1..Len(contents) |->
        [filename |-> chunk_name(FileA, i - 1), source |-> FileA, content |-> contents[i],
         embedding |-> <<1, 0>>, timestamp |-> 0]]

\* no chunk, one, two alike, two different, and more chunks than a search returns
FragmentIndexes ==
    {FragmentIndex(contents) :
        contents \in {<<>>, << <<"d">> >>, << <<"d">>, <<"d">> >>, << <<"d">>, <<"g">> >>,
                      << <<"d">>, <<"g">>, <<"d">>, <<"h">> >>}}

InitFragments ==
    /\ cached_prompts = <<>>
    /\ context_chunks = <<>>
    /\ now = 0
    /\ steps = 0
    /\ last_op = NoOp
    /\ first_put = {}
    /\ sessions = NoSessions
    /\ conversation_threads = <<>>
    /\ adders = NoAdders
    /\ message_history = <<>>
    /\ chunking = NoChunking
    /\ context_memory = <<>>
    /\ memory_seq = 0
    /\ store \in FragmentIndexes
    /\ last = NoCall
    /\ stream = IdleStream
    /\ NoIndex

NextFragments ==
    \/ /\ steps < MaxFragmentCalls
       /\ \E q \in CacheQueries, uc \in BOOLEAN, sm \in BOOLEAN, rp \in BOOLEAN,
             e \in QueryEmbeddings, o \in ServeOutcomes :
             Answer(q, uc, sm, rp, e, o)
    \/ /\ steps < MaxFragmentCalls
       /\ \E q \in CacheQueries, uc \in BOOLEAN, sm \in BOOLEAN, rp \in BOOLEAN,
             e \in QueryEmbeddings, o \in ServeOutcomes :
             StreamBegin(q, uc, sm, rp, e, o)
    \/ StreamNext
    \/ StreamStop

SpecFragments == InitFragments /\ [][NextFragments]_vars

\* how often a content was cached: the reuse_count of its row, 0 without a row
RECURSIVE CachedTimes(_, _)
CachedTimes(rows, content) ==
    IF rows = <<>> THEN 0
    ELSE (IF Head(rows).chunk_content = content THEN Head(rows).reuse_count ELSE 0)
         + CachedTimes(Tail(rows), content)

\* C33: a step that starts an answer call, streamed or not, and is neither a cache
\* hit nor a memory hit caches every chunk the search returned exactly once: each
\* content has a row afterwards and its counter is up by the number of returned
\* chunks with that content, also when the provider call failed; a cache hit or a
\* memory hit and the later steps of a stream leave the fragment table alone.
C33_RetrievedChunksAreCachedOnce ==
    [][ /\ ( steps' = steps + 1 /\ ~(last'.cache_hit \/ last'.outcome = "memory") ) =>
              /\ last'.model_calls = 1
              /\ \A k \in 1..Len(last'.retrieved) :
                    \E i \in 1..Len(context_chunks') :
                       context_chunks'[i].chunk_content = last'.retrieved[k].content
              /\ \A i \in 1..Len(context_chunks') :
                    LET content == context_chunks'[i].chunk_content
                    IN CachedTimes(context_chunks', content) =
                          CachedTimes(context_chunks, content)
                          + Cardinality({k \in 1..Len(last'.retrieved) :
                                            last'.retrieved[k].content = content})
        /\ ( steps' = steps + 1 /\ (last'.cache_hit \/ last'.outcome = "memory") ) =>
              context_chunks' = context_chunks
        /\ steps' = steps => context_chunks' = context_chunks
      ]_vars

\* a call whose provider call failed after three chunks were returned, two of
\* them alike, on a table that already held them
C33_Witness ==
    /\ last.provider_failed
    /\ Len(last.retrieved) = 3
    /\ \E i \in 1..Len(context_chunks) :
          context_chunks[i].chunk_content = <<"d">> /\ context_chunks[i].reuse_count = 4
    /\ \E i \in 1..Len(context_chunks) :
          context_chunks[i].chunk_content = <<"g">> /\ context_chunks[i].reuse_count = 2

-----------------------------------------------------------------------------
(* The tags of a question.                                                 *)

MaxQuestionWords == 4

\* a keyword of each category, one of them capitalised, a word that holds a
\* keyword inside ("shown") and a word that holds none
TagWords == {<<"H", "o", "w">>, <<"w", "h", "a", "t">>, <<"b", "u", "g">>,
             <<"d", "e", "s", "i", "g", "n">>, <<"s", "h", "o", "w", "n">>, <<"x">>}

TagQuestions ==
    {Join(words, <<" ">>) : words \in UNION {[1..n -> TagWords] : n \in 0..MaxQuestionWords}}

\* one call of the function per run
ExtractTags(question) ==
    /\ steps = 0
    /\ steps' = steps + 1
    /\ last_op' = [op |-> "tags", question |-> question, result |-> _extract_tags(question)]
    /\ UNCHANGED <<cached_prompts, context_chunks, now, first_put, sessions, chunking,
                   conversation_threads, adders, message_history, memVars, ragVars, diskVars>>

NextTags == \E question \in TagQuestions : ExtractTags(question)

SpecTags == InitRAG /\ [][NextTags]_vars

\* the positions in the keyword table of the categories with a keyword that
\* occurs in the lower-cased question
MatchingCategories(question) ==
    {k \in 1..Len(TagKeywords) :
        \E word \in TagKeywords[k].words : Contains(lower(question), word)}

\* C34: _extract_tags returns the labels of the categories that have a keyword
\* occurring in the lower-cased question, in the order of the table, cut after
\* the third: the i-th label is that of the i-th matching category, and there are
\* as many labels as matching categories, but at most three.
C34_TagsAreTheFirstThreeMatches ==
    last_op.op = "tags" =>
       LET matching == MatchingCategories(last_op.question)
           result == last_op.result
       IN /\ Len(result) = (IF Cardinality(matching) < 3 THEN Cardinality(matching) ELSE 3)
          /\ \A i \in 1..Len(result) :
                \E k \in matching :
                   /\ result[i] = TagKeywords[k].category
                   /\ Cardinality({j \in matching : j < k}) = i - 1
          /\ (Cardinality(matching) = 4) =>
                result = <<"implementation", "explanation", "troubleshooting">>
          /\ (matching = {}) => result = <<>>

\* a question with a keyword of each of the four categories, the first of them
\* capitalised
C34_Witness ==
    /\ last_op.op = "tags"
    /\ MatchingCategories(last_op.question) = 1..4
    /\ last_op.result = <<"implementation", "explanation", "troubleshooting">>
    /\ Contains(last_op.question, <<"H", "o", "w">>)

-----------------------------------------------------------------------------
(* vector_store_manager.py: the chunk loop of build_from_folder, one       *)
(* iteration per step.                                                     *)

MaxTextLen == 2000

\* the document lengths of the runs: every length within one character of a
\* multiple of 100, which takes in the lengths around chunk_size,
\* chunk_size - chunk_overlap and their multiples
TextLens == {n \in 0..MaxTextLen : n % 100 \in {0, 1, 99}}

ChunkedFiles == {FileA, FileB}

\* a document of text_len characters
TextOf(text_len) == IF text_len = 0 THEN <<>> ELSE <<[char |-> "d", count |-> text_len]>>

\* start = end - chunk_overlap if end < text_len else end, without its condition
NextStart_always_back(end, text_len) == end - chunk_overlap

\* the next window begins where the last one ended
NextStart_no_overlap(end, text_len) == end

\* start = end - chunk_overlap if end < text_len else end
NextStart(end, text_len) == IF end < text_len THEN end - chunk_overlap ELSE end

\* the loop over the documents takes the next document: its fingerprint is
\* recorded, and the chunk loop is entered unless the text is empty
ChunkStart(filename, text_len) ==
    /\ ~chunking.active
    /\ filename \notin chunking.file_hashes
    /\ chunking' = [chunking EXCEPT !.active = 0 < text_len,
                                    !.filename = filename,
                                    !.text_len = text_len,
                                    !.start = 0,
                                    !.chunk_index = 0,
                                    !.file_hashes = @ \cup {filename}]
    /\ UNCHANGED <<cached_prompts, context_chunks, now, steps, last_op, first_put, sessions,
                   conversation_threads, adders, message_history, memVars, ragVars, diskVars>>

\* one iteration of `while start < text_len`; the embedding call answers or fails
ChunkStep(answered) ==
    /\ chunking.active
    /\ LET start == chunking.start
           text_len == chunking.text_len
           end == IF start + chunk_size < text_len THEN start + chunk_size ELSE text_len
           chunk_text == Slice(TextOf(text_len), start, end)
           embedding == embed_with_openrouter(KnowledgeModel, chunk_text, answered)
           next == NextStart(end, text_len)
       IN chunking' =
             [chunking EXCEPT
                !.store = IF embedding # <<>>
                          THEN Append(@, [filename |-> chunk_name(chunking.filename,
                                                                  chunking.chunk_index),
                                          source |-> chunking.filename,
                                          content |-> chunk_text,
                                          start |-> start, end |-> end])
                          ELSE @,
                !.failures = IF embedding # <<>> THEN @ ELSE @ + 1,
                !.chunk_index = @ + 1,
                !.start = next,
                !.active = next < text_len]
    /\ UNCHANGED <<cached_prompts, context_chunks, now, steps, last_op, first_put, sessions,
                   conversation_threads, adders, message_history, memVars, ragVars, diskVars>>

NextChunking ==
    \/ \E f \in ChunkedFiles, n \in TextLens : ChunkStart(f, n)
    \/ \E answered \in BOOLEAN : ChunkStep(answered)

SpecChunking == InitRAG /\ [][NextChunking]_vars

\* the loop is not held up: an iteration that can be made is made
SpecChunkingFair == SpecChunking /\ WF_vars(\E answered \in BOOLEAN : ChunkStep(answered))

\* C35: every iteration of the chunk loop moves the window start forward, by
\* chunk_size - chunk_overlap = 800 characters or to the end of the text, and
\* never past it; the loop of every document comes to its end.
C35_ChunkLoopTerminates ==
    [][ (chunking.active /\ chunking' # chunking) =>
           /\ chunking'.start > chunking.start
           /\ \/ chunking'.start = chunking.start + 800
              \/ chunking'.start = chunking.text_len
           /\ chunking'.start <= chunking.text_len
           /\ chunking'.active = (chunking'.start < chunking.text_len) ]_vars
    /\ (chunking.active ~> ~chunking.active)

\* the loop of a document of more than two chunks has ended
C35_Witness ==
    /\ ~chunking.active
    /\ chunking.text_len = 1801
    /\ chunking.chunk_index = 3
    /\ chunking.start = 1801

\* the chunks of the store made from one file, in store order
ChunksOf(entries, filename) == SelectSeq(entries, LAMBDA e : e.source = filename)

\* C36: when the chunk loop of a non-empty document has ended and no embedding
\* call has failed, the document's chunks are, in order, the windows
\* [800 * i, min(800 * i + 1000, len)) of its text under the names
\* filename__chunk_i: none is longer than 1000 characters, the first begins at
\* the start of the text, each next one begins 200 characters before the end of
\* the one before it, and the last ends at the end of the text, so every
\* character is in a chunk (these are the windows a whole build cuts); all chunk
\* names of the store differ and each chunk carries the file it was cut from as
\* its source.
C36_ChunksCoverTheText ==
    /\ \A i, j \in 1..Len(chunking.store) :
          chunking.store[i].filename = chunking.store[j].filename => i = j
    /\ \A i \in 1..Len(chunking.store) :
          /\ chunking.store[i].source \in chunking.file_hashes
          /\ chunking.store[i].filename =
                chunk_name(chunking.store[i].source, chunking.store[i].start \div 800)
    /\ (~chunking.active /\ chunking.failures = 0 /\ chunking.text_len > 0) =>
          LET chunks == ChunksOf(chunking.store, chunking.filename)
              len == chunking.text_len
              n == Len(chunks)
          IN /\ n > 0
             /\ chunks[1].start = 0
             /\ chunks[n].end = len
             /\ \A i \in 1..n :
                   /\ chunks[i].start = 800 * (i - 1)
                   /\ chunks[i].end = (IF 800 * (i - 1) + 1000 < len
                                       THEN 800 * (i - 1) + 1000 ELSE len)
                   /\ chunks[i].content = Slice(TextOf(len), chunks[i].start, chunks[i].end)
                   /\ TextLen(chunks[i].content) = chunks[i].end - chunks[i].start
                   /\ TextLen(chunks[i].content) <= 1000
                   /\ TextLen(chunks[i].content) > 0
                   /\ chunks[i].filename = chunk_name(chunking.filename, i - 1)
             /\ \A i \in 1..(n - 1) : chunks[i].end - chunks[i + 1].start = 200
             /\ [i \in 1..n |-> [chunk_index |-> i - 1, start |-> chunks[i].start,
                                  end |-> chunks[i].end]] = ChunkWindows(len, 0, 0)

\* the second of two documents was cut into three chunks, the first into two
C36_Witness ==
    /\ ~chunking.active
    /\ chunking.failures = 0
    /\ chunking.text_len = 1801
    /\ Len(ChunksOf(chunking.store, chunking.filename)) = 3
    /\ Len(chunking.store) = 5

-----------------------------------------------------------------------------
(* What decides a prompt-cache hit.  The answer calls take the chat model   *)
(* as an argument; temperature, top_p and message_history reach nothing but *)
(* the provider request, whose outcome is the input `outcome`; the corpus   *)
(* is the index a call searches.  Between calls the caller may pass another *)
(* history and initialize_knowledge_base may return another index.  The     *)
(* prompt cache is a file: the runs start with the row an earlier run       *)
(* stored for the question "a".                                             *)

MaxLookupCalls == 2
OtherModel == <<"n">>
ChatModels == {ChatModel, OtherModel}
LookupIndexes == {<<>>, KnowledgeBase}

\* initialize_knowledge_base left another index in the vector store manager
LoadIndex(entries) ==
    /\ ~stream.active
    /\ entries # store
    /\ store' = entries
    /\ UNCHANGED <<cached_prompts, context_chunks, now, steps, last_op, first_put, sessions,
                   chunking, conversation_threads, adders, message_history, memVars, last, stream,
                   diskVars>>

NextLookup ==
    \/ \E h \in Histories : PassHistory(h)
    \/ \E entries \in LookupIndexes : LoadIndex(entries)
    \/ /\ steps < MaxLookupCalls
       /\ \E m \in ChatModels, q \in ServeQuestions, uc \in BOOLEAN, sm \in BOOLEAN,
             rp \in BOOLEAN, o \in ServeOutcomes :
             AnswerWith(m, q, uc, sm, rp, <<1, 0>>, o)
    \/ /\ steps < MaxLookupCalls
       /\ \E m \in ChatModels, q \in ServeQuestions, uc \in BOOLEAN, sm \in BOOLEAN,
             rp \in BOOLEAN, o \in ServeOutcomes :
             StreamBeginWith(m, q, uc, sm, rp, <<1, 0>>, o)
    \/ StreamNext
    \/ StreamStop

InitLookup ==
    /\ cached_prompts = WriteBackCache(<<>>, TRUE, <<"a">>, <<"d">>, <<"y", "z">>, ChatModel, 0)
    /\ context_chunks = <<>>
    /\ context_memory = <<>>
    /\ memory_seq = 0
    /\ store = KnowledgeBase
    /\ vs_metadata = KnowledgeMetadata
    /\ folder = KnowledgeFolder
    /\ metadata_file = WrittenFile(KnowledgeMetadata)
    /\ vectors_file = WrittenFile(KnowledgeChunks)
    /\ build = [NoBuild EXCEPT !.n = 1, !.embed_model_id = KnowledgeModel,
                                !.folder = KnowledgeFolder, !.phase = "done",
                                !.embed_calls = 1, !.returned = KnowledgeChunks]
    /\ reader = NoReader
    /\ built = {[files |-> KnowledgeMetadata.files, model_id |-> KnowledgeModel,
                 chunks |-> KnowledgeChunks]}
    /\ now = 0
    /\ steps = 0
    /\ last = NoCall
    /\ stream = IdleStream
    /\ last_op = NoOp
    /\ first_put = {}
    /\ sessions = NoSessions
    /\ conversation_threads = <<>>
    /\ adders = NoAdders
    /\ message_history = <<>>
    /\ chunking = NoChunking

SpecLookup == InitLookup /\ [][NextLookup]_vars

\* the rows of the prompt cache stored for exactly this question text
RowsOfQuestion(rows, user_question) ==
    {i \in 1..Len(rows) : rows[i].query = user_question}

\* C37: an answer call made with use_cache is a prompt-cache hit exactly when the
\* prompt cache holds a row stored for the very same question text, and it then
\* returns that row's response, whatever the call's chat model, the history the
\* caller passed, the index it would search and the provider would do; a row
\* stored for another spelling of the question (letter case, whitespace) does not
\* make it a hit.
C37_HitIsDecidedByTheQuestionText ==
    [][ (steps' # steps /\ last'.use_cache) =>
            /\ last'.cache_hit <=> RowsOfQuestion(cached_prompts, last'.question) # {}
            /\ last'.cache_hit =>
                   \A i \in RowsOfQuestion(cached_prompts, last'.question) :
                       last'.response = cached_prompts[i].response ]_vars

\* a hit for "a" by a call that names another chat model than the row's, with a
\* non-empty history and an emptied index, while a row for the spelling "A " is
\* in the cache as well: the call that stored it missed the row of "a"
C37_Witness ==
    /\ last.cache_hit /\ last.use_cache
    /\ last.question = <<"a">>
    /\ message_history # <<>>
    /\ store = <<>>
    /\ \E i \in 1..Len(cached_prompts) :
           /\ cached_prompts[i].query = <<"a">>
           /\ cached_prompts[i].model_id # last.model_id
    /\ \E j \in 1..Len(cached_prompts) :
           /\ cached_prompts[j].query = <<"A", " ">>
           /\ cached_prompts[j].created_at > 0

-----------------------------------------------------------------------------
(* The memory store under lookups: store_context calls, the two lookups,   *)
(* and answer calls that consult the memory and write back to it.          *)

MaxRecallCalls == 3

\* the queries looked up: the stored ones and one that was never stored
RecallQueries == MemoryQueries \cup {<<"n">>}

\* tag lists a caller looks up: none, a label, and part of a label in capitals
\* before the label
RecallTags ==
    {<<>>, << <<"d", "e", "s", "i", "g", "n">> >>,
     << <<"S", "I", "G">>, <<"d", "e", "s", "i", "g", "n">> >>}

GetMemoryByTags(tags, limit) ==
    /\ steps < MaxMemorySteps
    /\ steps' = steps + 1
    /\ \E result \in get_memory_by_tags(context_memory, tags, limit) :
          last_op' = [op |-> "by_tags", tags |-> tags, limit |-> limit, result |-> result]
    /\ context_memory' = get_memory_by_tags_rows(context_memory, tags, limit)
    /\ UNCHANGED <<now, memory_seq>>
    /\ MemoryFrame

NextRecall ==
    \/ Tick
    \/ /\ steps < MaxRecallCalls
       /\ \E q \in MemoryQueries, c \in MemoryContexts, v \in MemoryPayloads :
             StoreContext(q, c, v)
    \/ /\ steps < MaxRecallCalls
       /\ \E q \in RecallQueries, l \in Limits, f \in ConfidenceFloors :
             RetrieveSimilarContexts(q, l, f)
    \/ /\ steps < MaxRecallCalls
       /\ \E tags \in RecallTags, l \in Limits : GetMemoryByTags(tags, l)
    \/ /\ steps < MaxRecallCalls
       /\ \E q \in MemoryQueries, sm \in BOOLEAN, rp \in BOOLEAN, o \in ServeOutcomes :
             Answer(q, FALSE, sm, rp, <<1, 0>>, o)

SpecRecall == InitMemory /\ [][NextRecall]_vars

\* the rows of an entry's key
KeyRows(rows, query_hash, context_hash) ==
    {i \in 1..Len(rows) : rows[i].query_hash = query_hash /\ rows[i].context_hash = context_hash}

\* the step is a call of the store: the clock stands still during it
MemoryCall == steps' # steps /\ now' = now

\* the step is an answer call, which takes a tick
AnswerCall == steps' # steps /\ now' # now

\* the step makes a store_context call for the key, directly or as the write-back
\* of an answer
StoreCallFor(query_hash, context_hash) ==
    \/ /\ MemoryCall
       /\ last_op'.op = "store"
       /\ _hash_text(last_op'.query) = query_hash
       /\ _hash_text(last_op'.context) = context_hash
    \/ /\ AnswerCall
       /\ last'.outcome = "fresh" /\ last'.store_memory
       /\ _hash_text(last'.question) = query_hash
       /\ _hash_text(last'.context) = context_hash

\* C38: retrieve_similar_contexts and get_memory_by_tags leave the memory table
\* as it is, and so does an answer served from memory.  An entry's access_count
\* and last_accessed change in a store_context call for its key and in no other
\* step: the call creates the entry with count 1 or raises the count by one, and
\* sets last_accessed to its own time, so the count is the number of store calls
\* for the key and last_accessed the time of the last of them.  The fallback of
\* retrieve_similar_contexts returns its entries by that time, latest first.
C38_LookupsAreReadOnly ==
    [][ /\ (MemoryCall /\ last_op'.op \in {"retrieve", "by_tags"}) => UNCHANGED memVars
        /\ (AnswerCall /\ last'.outcome = "memory") => UNCHANGED memVars
        /\ \A i \in 1..Len(context_memory') :
              LET row == context_memory'[i]
                  old == KeyRows(context_memory, row.query_hash, row.context_hash)
              IN IF StoreCallFor(row.query_hash, row.context_hash)
                 THEN /\ row.last_accessed = (IF MemoryCall THEN now ELSE now')
                      /\ IF old = {} THEN row.access_count = 1
                         ELSE \A j \in old :
                                 row.access_count = context_memory[j].access_count + 1
                 ELSE /\ old # {}
                      /\ \A j \in old :
                            /\ row.access_count = context_memory[j].access_count
                            /\ row.last_accessed = context_memory[j].last_accessed
        /\ (MemoryCall /\ last_op'.op = "store") =>
              KeyRows(context_memory', _hash_text(last_op'.query),
                      _hash_text(last_op'.context)) # {}
        /\ (AnswerCall /\ last'.outcome = "fresh" /\ last'.store_memory) =>
              KeyRows(context_memory', _hash_text(last'.question),
                      _hash_text(last'.context)) # {}
        /\ (/\ MemoryCall
            /\ last_op'.op = "retrieve"
            /\ \A i \in 1..Len(context_memory) :
                  \/ context_memory[i].query_hash # _hash_text(last_op'.query)
                  \/ context_memory[i].confidence_score < last_op'.min_confidence) =>
              \A k \in 1..(Len(last_op'.result) - 1) :
                  last_op'.result[k].last_accessed >= last_op'.result[k + 1].last_accessed
      ]_vars

\* after an answer was served from memory and time has passed, a fallback lookup
\* returns two entries, the one stored last first although the other, stored
\* LowUsageThreshold times, was the one retrieved since
C38_Witness ==
    /\ last_op.op = "retrieve"
    /\ last.outcome = "memory"
    /\ Len(last_op.result) = 2
    /\ last_op.result[1].query # last_op.query
    /\ last_op.result[1].access_count = 1
    /\ last_op.result[1].last_accessed > last_op.result[2].last_accessed
    /\ last_op.result[2].access_count = LowUsageThreshold
    /\ last_op.result[2].query = last.question
    /\ now > last_op.result[1].last_accessed

-----------------------------------------------------------------------------
(* add_to_thread calls in flight.  Each call opens its own connection.  Its *)
(* SELECT runs outside a transaction and reads the committed row; the       *)
(* UPDATE opens a transaction that holds the database's write lock until    *)
(* conn.commit(), and writes the list computed from what the SELECT read.   *)

\* the adders with an open write transaction
ThreadLockHolders(as) == {p \in Adders : as[p].pc = "updated"}

AdderFrame ==
    UNCHANGED <<cached_prompts, context_chunks, now, last_op, first_put, sessions, chunking,
                message_history, memVars, ragVars, diskVars>>

\* connect, SELECT context_ids, fetchone, and the membership test on the parsed
\* list: the call returns True at once when there is no such thread or the id is
\* in the list it read
AddSelect(p, thread_id, context_id) ==
    LET m == ThreadRows(conversation_threads, thread_id)
        me == [IdleAdder EXCEPT !.thread_id = thread_id, !.context_id = context_id]
    IN /\ adders[p].pc = "idle"
       /\ steps' = steps + 1
       /\ IF m = {}
          THEN adders' = [adders EXCEPT ![p] = [me EXCEPT !.pc = "returned", !.ok = TRUE]]
          ELSE LET result == conversation_threads[CHOOSE i \in m : TRUE].context_ids
                   context_ids == json_loads(result)
               IN IF \E k \in 1..Len(context_ids) : context_ids[k] = context_id
                  THEN adders' = [adders EXCEPT ![p] = [me EXCEPT !.pc = "returned",
                                                                  !.found = TRUE,
                                                                  !.context_ids = context_ids,
                                                                  !.ok = TRUE]]
                  ELSE adders' = [adders EXCEPT ![p] = [me EXCEPT !.pc = "selected",
                                                                  !.found = TRUE,
                                                                  !.context_ids = context_ids]]
       /\ UNCHANGED conversation_threads
       /\ AdderFrame

\* context_ids.append(context_id) and the UPDATE statement, once no other
\* connection holds the write lock
AddUpdate(p) ==
    /\ adders[p].pc = "selected"
    /\ ThreadLockHolders(adders) = {}
    /\ adders' = [adders EXCEPT ![p].pc = "updated",
                                ![p].context_ids = Append(@, adders[p].context_id)]
    /\ UNCHANGED <<steps, conversation_threads>>
    /\ AdderFrame

\* conn.commit(), close, return True: the row now holds the list of this call
AddCommit(p) ==
    LET me == adders[p]
    IN /\ me.pc = "updated"
       /\ conversation_threads' =
             [i \in 1..Len(conversation_threads) |->
                 IF conversation_threads[i].thread_id = me.thread_id
                 THEN [conversation_threads[i] EXCEPT !.context_ids = json_dumps(me.context_ids),
                                                      !.last_updated = now]
                 ELSE conversation_threads[i]]
       /\ adders' = [adders EXCEPT ![p].pc = "returned", ![p].ok = TRUE]
       /\ UNCHANGED steps
       /\ AdderFrame

\* the UPDATE waited for the write lock longer than the connection's timeout:
\* "database is locked" is caught by `except Exception`, the call returns False
AddLockTimeout(p) ==
    /\ adders[p].pc = "selected"
    /\ ThreadLockHolders(adders) # {}
    /\ adders' = [adders EXCEPT ![p].pc = "returned", ![p].ok = FALSE]
    /\ UNCHANGED <<steps, conversation_threads>>
    /\ AdderFrame

NextAdders ==
    \/ \E t \in ThreadIds, title \in ThreadTitles : CreateConversationThread(t, title)
    \/ \E p \in Adders, t \in ThreadIds, c \in ContextIds : AddSelect(p, t, c)
    \/ \E p \in Adders : AddUpdate(p)
    \/ \E p \in Adders : AddCommit(p)
    \/ \E p \in Adders : AddLockTimeout(p)

SpecAdders == InitMemory /\ [][NextAdders]_vars

\* how often a context id occurs in a list
Occurrences(context_ids, context_id) ==
    Cardinality({k \in 1..Len(context_ids) : context_ids[k] = context_id})

\* C39: when two add_to_thread calls for the same thread, which both found the
\* thread, have returned True after adding distinct context ids, the thread's
\* list holds each of the two ids exactly once, however their steps were
\* interleaved.
C39_ConcurrentAddsLoseNoUpdate ==
    \A p, q \in Adders :
        (/\ p # q
         /\ adders[p].pc = "returned" /\ adders[q].pc = "returned"
         /\ adders[p].ok /\ adders[q].ok
         /\ adders[p].found /\ adders[q].found
         /\ adders[p].thread_id = adders[q].thread_id
         /\ adders[p].context_id # adders[q].context_id) =>
            \A i \in ThreadRows(conversation_threads, adders[p].thread_id) :
                /\ Occurrences(ContextIdsOf(conversation_threads[i]), adders[p].context_id) = 1
                /\ Occurrences(ContextIdsOf(conversation_threads[i]), adders[q].context_id) = 1

====
